---- MODULE Spec2Model ----
(***************************************************************************)
(* A model of sql-builder (src/sqlbuilder.py): the DataCache that loads a  *)
(* delimited or JSON file and serves its rows in chunks, the type          *)
(* inferrer, the INSERT row formatter, and the worker-pool / progress      *)
(* dialog protocol of the Tk front end.                                    *)
(*                                                                         *)
(* Python values are represented as follows.                               *)
(*   None            the empty tuple <<>>                                  *)
(*   a non-None x    the one-element tuple <<x>>  (Some(x))                *)
(*   list            a sequence                                            *)
(*   str             a TLA+ string where the text is opaque to the code,   *)
(*                   a sequence of one-character strings where the code    *)
(*                   inspects the characters                               *)
(***************************************************************************)
EXTENDS Integers, Sequences, FiniteSets, TLC

VARIABLES
    cache,      \* the DataCache instance (src/sqlbuilder.py:24-32)
    lastError,  \* exception class that left the last load_file, or "none"
    call,       \* arguments of the last load_file call
    gen,        \* the generator object returned by get_chunk_generator
    prevRows,   \* rows served by the previous completed generator, if any
    ui,         \* the Tk front end: screen, tasks, progress dialogs, callbacks
    fmt,        \* the column editor and the last formatted INSERT tuple
    inf,        \* the type inferrer's sample and its tally
    js,         \* a parsed JSON document and the tables made of it
    job         \* one run of generate_task: its locals, its dialog, the output file

vars == <<cache, lastError, call, gen, prevRows, ui, fmt, inf, js, job>>

\* value of a variable in the specifications that leave that part alone
Unused == "unused"

-----------------------------------------------------------------------------
(* Generic helpers                                                         *)

None == <<>>
Some(x) == <<x>>
Val(o) == o[1]

Min(a, b) == IF a < b THEN a ELSE b
Max(a, b) == IF a > b THEN a ELSE b

\* Python's s[:n] on a list, n >= 0
Prefix(s, n) == SubSeq(s, 1, Min(n, Len(s)))

\* Python truthiness of an optional list: not None and not empty
Truthy(o) == o # None /\ Len(Val(o)) > 0

RECURSIVE Flatten(_)
\* the concatenation of a sequence of lists (by halves, to keep the
\* evaluation shallow)
Flatten(batches) ==
    IF Len(batches) = 0 THEN <<>>
    ELSE IF Len(batches) = 1 THEN batches[1]
    ELSE LET m == Len(batches) \div 2
         IN  Flatten(SubSeq(batches, 1, m)) \o Flatten(SubSeq(batches, m + 1, Len(batches)))

-----------------------------------------------------------------------------
(* Bounds of the model                                                     *)

\* number of data rows of the largest delimited file on the modelled disk
BigRows == 1001
\* number of elements of the longest JSON root array on the modelled disk
JsonBigLen == 120
\* generator invocations explored per loaded dataset
MaxRuns == 2

-----------------------------------------------------------------------------
(* Program constants                                                       *)

SampleLineLimit == 100       \* lines read by the size estimate
FallbackLineSize == 100      \* average line size assumed for an empty file
MinSmallSample == 100        \* floor of the small-file / JSON sample size
MinLargeSample == 1000       \* floor of the large-file sample target
LargeChunkSize == 10000      \* chunk_size default of _load_large_csv_file
DefaultSamplePercentage == 15
DefaultLargeFileThreshold == 50000
DefaultChunkSize == 5000

-----------------------------------------------------------------------------
(* The files on disk.  A path is [stem, ext]; Disk(path) is what open()    *)
(* and the readers find there.  A delimited file is a header line followed *)
(* by data lines; line k of it has LineBytes bytes.  JSON documents are    *)
(* trees: [t |-> "prim", k, s] (k the JSON type, s the literal text),      *)
(* [t |-> "arr", items] and [t |-> "obj", kv] (kv a sequence of <<key,     *)
(* value>> pairs in document order).                                       *)

JInt(s)  == [t |-> "prim", k |-> "int", s |-> s]
JStr(s)  == [t |-> "prim", k |-> "str", s |-> s]
JBool(s) == [t |-> "prim", k |-> "bool", s |-> s]
JNull    == [t |-> "prim", k |-> "null", s |-> "null"]
JArr(xs) == [t |-> "arr", items |-> xs]
JObj(kv) == [t |-> "obj", kv |-> kv]

\* nlines physical lines (0: an empty file), the first headLines of them
\* headLen bytes long and the others tailLen; reading data row badRow makes
\* csv.reader raise csv.Error (0: no such row); sep is the delimiter the
\* file was written with.
CsvFile(nlines, headLines, headLen, tailLen, badRow) ==
    [kind |-> "csv", readable |-> TRUE, decodable |-> TRUE, nlines |-> nlines,
     headLines |-> headLines, headLen |-> headLen, tailLen |-> tailLen,
     badRow |-> badRow, sep |-> ","]

\* a JSON document; as text it is the single line json.dump writes, which is
\* what a csv.reader pointed at the file reads
JsonFile(valid, root) ==
    [kind |-> "json", readable |-> TRUE, decodable |-> TRUE, valid |-> valid,
     root |-> root, nlines |-> 1, headLines |-> 1, headLen |-> 24, tailLen |-> 24,
     badRow |-> 0, sep |-> ""]

Missing == [kind |-> "none", readable |-> FALSE, decodable |-> FALSE]
Binary  == [kind |-> "bytes", readable |-> TRUE, decodable |-> FALSE]

P(stem, ext) == [stem |-> stem, ext |-> ext]

\* rows of a file that get_chunk_generator() serves in three chunks
HugeRows == 2 * DefaultChunkSize + 1

\* the string json.load makes of the escape "\ud800": one UTF-16 surrogate
\* code point, which no codec of open(..., 'w') encodes
LoneSurrogate == "U+D800"

Paths ==
    { P("empty", ".csv"), P("hdr", ".csv"), P("s3", ".csv"), P("s102", ".txt"),
      P("e200", ".csv"), P("var", ".csv"), P("big", ".csv"), P("bad", ".csv"),
      P("bigbad", ".csv"), P("gone", ".csv"), P("bin", ".csv"),
      P("objs", ".json"), P("prims", ".JSON"), P("one", ".json"),
      P("scalar", ".json"), P("none", ".json"), P("mixed", ".json"),
      P("syntax", ".json"), P("gone", ".json"), P("bin", ".json") }

Disk(path) ==
    CASE path = P("empty", ".csv")  -> CsvFile(0, 0, 0, 0, 0)
      [] path = P("hdr", ".csv")    -> CsvFile(1, 1, 6, 6, 0)
      [] path = P("s3", ".csv")     -> CsvFile(4, 4, 10, 10, 0)
      [] path = P("s102", ".txt")   -> CsvFile(103, 103, 100, 100, 0)
      [] path = P("e200", ".csv")   -> CsvFile(200, 200, 10, 10, 0)
      [] path = P("var", ".csv")    -> CsvFile(150, 100, 4, 50000, 0)
      [] path = P("big", ".csv")    -> CsvFile(BigRows + 1, 100, 100, 100, 0)
      [] path = P("bad", ".csv")    -> CsvFile(6, 6, 10, 10, 3)
      [] path = P("bigbad", ".csv") -> CsvFile(BigRows + 5, 100, 100, 100, BigRows + 2)
      [] path = P("gone", ".csv")   -> Missing
      [] path = P("bin", ".csv")    -> Binary
      [] path = P("objs", ".json")  ->
            JsonFile(TRUE, JArr(<< JObj(<< <<"a", JInt("1")>> >>),
                                   JObj(<< <<"a", JInt("2")>>, <<"b", JInt("3")>> >>) >>))
      [] path = P("prims", ".JSON") ->
            JsonFile(TRUE, JArr([i \in 1..JsonBigLen |-> JInt(ToString(i))]))
      [] path = P("one", ".json")   ->
            JsonFile(TRUE, JObj(<< <<"b", JInt("1")>>,
                                   <<"a", JObj(<< <<"c", JBool("true")>>,
                                                  <<"d", JArr(<<JInt("1"), JStr("x")>>)>> >>)>>,
                                   <<"e", JArr(<< JObj(<< <<"f", JNull>> >>),
                                                  JObj(<< <<"f", JStr("y")>> >>) >>)>> >>))
      [] path = P("scalar", ".json") -> JsonFile(TRUE, JInt("5"))
      [] path = P("none", ".json")   -> JsonFile(TRUE, JArr(<<>>))
      [] path = P("mixed", ".json")  ->
            JsonFile(TRUE, JArr(<< JObj(<< <<"a", JInt("1")>> >>), JInt("7"),
                                   JObj(<< <<"b", JStr("z")>> >>) >>))
      [] path = P("syntax", ".json") -> JsonFile(FALSE, JNull)
      [] path = P("gone", ".json")   -> Missing
      [] path = P("bin", ".json")    -> Binary
      [] path = P("huge", ".csv")   -> CsvFile(HugeRows + 1, 100, 100, 100, 0)
      [] path = P("sur", ".json")    ->
            JsonFile(TRUE, JArr(<< JObj(<< <<"a", JStr(LoneSurrogate)>> >>),
                                   JObj(<< <<"a", JStr("x")>> >>) >>))

\* bytes of physical line k (1-based) of a delimited file
LineBytes(f, k) == IF k <= f.headLines THEN f.headLen ELSE f.tailLen

\* bytes of the first k lines, and of the whole file (what f.tell() returns
\* after f.seek(0, 2))
BytesOfFirst(f, k) ==
    Min(k, f.headLines) * f.headLen + Max(0, k - f.headLines) * f.tailLen
FileSize(f) == BytesOfFirst(f, f.nlines)

\* csv.reader(f, delimiter): the record read from physical line k.  With the
\* file's own delimiter the line splits into its fields, with any other it
\* stays one field that still holds the separators.
Fields(k) == IF k = 1 THEN <<"id", "name">> ELSE <<ToString(k - 1), "v">>
Record(f, k, delimiter) ==
    IF f.kind = "json" THEN <<"(json text)">>
    ELSE IF delimiter = f.sep THEN Fields(k)
    ELSE << Fields(k)[1] \o f.sep \o Fields(k)[2] >>

\* the data rows (records 2..nlines) a reader with this delimiter produces
NumRows(f) == Max(0, f.nlines - 1)
DataRows(f, delimiter) == [i \in 1..NumRows(f) |-> Record(f, i + 1, delimiter)]

-----------------------------------------------------------------------------
(* JSON to table (DataCache._process_json_data, _flatten_object)           *)

RECURSIVE JoinStr(_, _)
\* sep.join(strs)
JoinStr(strs, sep) ==
    IF strs = <<>> THEN ""
    ELSE IF Len(strs) = 1 THEN strs[1]
    ELSE strs[1] \o sep \o JoinStr(Tail(strs), sep)

RECURSIVE ConcatAll(_)
ConcatAll(seqs) == IF seqs = <<>> THEN <<>> ELSE Head(seqs) \o ConcatAll(Tail(seqs))

RECURSIVE PyRepr(_)
\* repr() of a parsed JSON value (strings without quote characters)
PyRepr(v) ==
    CASE v.t = "prim" ->
            (CASE v.k = "bool" -> (IF v.s = "true" THEN "True" ELSE "False")
               [] v.k = "null" -> "None"
               [] v.k = "str"  -> "'" \o v.s \o "'"
               [] OTHER        -> v.s)
      [] v.t = "arr" ->
            "[" \o JoinStr([i \in 1..Len(v.items) |-> PyRepr(v.items[i])], ", ") \o "]"
      [] v.t = "obj" ->
            "{" \o JoinStr([i \in 1..Len(v.kv) |->
                              "'" \o v.kv[i][1] \o "': " \o PyRepr(v.kv[i][2])], ", ") \o "}"

\* str() of a parsed JSON value: a string is itself, anything else its repr
PyStr(v) == IF v.t = "prim" /\ v.k = "str" THEN v.s ELSE PyRepr(v)

RECURSIVE dict(_)
\* dict(items): a key keeps the position of its first pair and the value of
\* its last
dict(items) ==
    IF items = <<>> THEN <<>>
    ELSE LET init == dict(SubSeq(items, 1, Len(items) - 1))
             last == items[Len(items)]
         IN  IF \E j \in 1..Len(init) : init[j][1] = last[1]
             THEN [j \in 1..Len(init) |-> IF init[j][1] = last[1] THEN last ELSE init[j]]
             ELSE Append(init, last)

\* the keys of an ordered dict, and d.get(key, '') rendered by str()
Keys(d) == [j \in 1..Len(d) |-> d[j][1]]
HasKey(d, key) == \E j \in 1..Len(d) : d[j][1] = key
StrGet(d, key) ==
    IF HasKey(d, key)
    THEN PyStr(d[CHOOSE j \in 1..Len(d) : d[j][1] = key][2])
    ELSE ""

RECURSIVE _flatten_object(_, _)
_flatten_object(obj, parent_key) ==
    LET entry(key, value) ==
            LET new_key == IF parent_key # "" THEN parent_key \o "." \o key ELSE key
            IN  IF value.t = "obj" THEN _flatten_object(value, new_key)
                ELSE IF value.t = "arr" THEN
                    IF Len(value.items) > 0 /\ value.items[1].t = "obj"
                    THEN ConcatAll([i \in 1..Len(value.items) |->
                            _flatten_object(value.items[i],
                                            new_key \o "[" \o ToString(i - 1) \o "]")])
                    ELSE << <<new_key,
                              JStr(JoinStr([i \in 1..Len(value.items) |->
                                               PyStr(value.items[i])], ", "))>> >>
                ELSE << <<new_key, value>> >>
        items ==
            IF obj.t = "obj"
            THEN ConcatAll([j \in 1..Len(obj.kv) |-> entry(obj.kv[j][1], obj.kv[j][2])])
            ELSE << <<IF parent_key # "" THEN parent_key ELSE "value", obj>> >>
    IN  dict(items)

RECURSIVE AddHeaders(_, _)
\* the first pass of the array-of-objects branch: append the keys not seen yet
AddHeaders(headers, keys) ==
    IF keys = <<>> THEN headers
    ELSE AddHeaders(IF \E j \in 1..Len(headers) : headers[j] = Head(keys)
                    THEN headers ELSE Append(headers, Head(keys)),
                    Tail(keys))

\* variant of CollectHeaders that takes the keys of the first object only
CollectHeaders_FirstOnly(headers, dicts) ==
    IF dicts = <<>> THEN headers
    ELSE AddHeaders(headers, Keys(_flatten_object(Head(dicts), "")))

RECURSIVE CollectHeaders(_, _)
CollectHeaders(headers, dicts) ==
    IF dicts = <<>> THEN headers
    ELSE CollectHeaders(AddHeaders(headers, Keys(_flatten_object(Head(dicts), ""))),
                        Tail(dicts))

IsDict(v) == v.t = "obj"

_process_json_data(json_data) ==
    IF json_data.t = "arr" THEN
        IF Len(json_data.items) = 0 THEN [headers |-> <<>>, rows |-> <<>>]
        ELSE IF ~IsDict(json_data.items[1]) THEN
            [headers |-> <<"value">>,
             rows |-> [i \in 1..Len(json_data.items) |-> <<PyStr(json_data.items[i])>>]]
        ELSE
            LET dicts == SelectSeq(json_data.items, IsDict)
                headers == CollectHeaders(<<>>, dicts)
            IN  [headers |-> headers,
                 rows |-> [i \in 1..Len(dicts) |->
                             [h \in 1..Len(headers) |->
                                 StrGet(_flatten_object(dicts[i], ""), headers[h])]]]
    ELSE IF json_data.t = "obj" THEN
        LET flattened == _flatten_object(json_data, "")
            headers == Keys(flattened)
        IN  [headers |-> headers,
             rows |-> << [h \in 1..Len(headers) |-> StrGet(flattened, headers[h])] >>]
    ELSE
        [headers |-> <<"value">>, rows |-> << <<PyStr(json_data)>> >>]

-----------------------------------------------------------------------------
(* DataCache (src/sqlbuilder.py:22-275)                                    *)

\* DataCache.__init__; estimated_rows is None while the attribute is unset
NewCache ==
    [headers |-> None, sample_rows |-> None, all_rows |-> None,
     file_info |-> None, is_loaded |-> FALSE, is_large_file |-> FALSE,
     chunk_generator |-> None, file_type |-> None, estimated_rows |-> None]

clear(c) ==
    [c EXCEPT !.headers = None, !.sample_rows = None, !.all_rows = None,
              !.file_info = None, !.is_loaded = FALSE, !.is_large_file = FALSE,
              !.chunk_generator = None, !.file_type = None]

\* str.lower() on the extensions in use
Lower(ext) == IF ext = ".JSON" THEN ".json" ELSE ext

get_file_type(file_path) ==
    IF Lower(file_path.ext) = ".json" THEN "json" ELSE "csv"

\* what a callee hands back: the cache as it left it and the exception
\* class that escaped ("none": it returned)
Return(c) == [cache |-> c, err |-> "none"]
Raise(c, e) == [cache |-> c, err |-> e]

\* csv.reader accepts a delimiter that is a one-character string and raises
\* TypeError for any other ('' or None)
OneChar(delimiter) == delimiter \in {",", ";", "|", ":", "^", "\t"}

\* variant of SampleSize without the minimum: the bare percentage
SampleSize_NoMinimum(floor, count, sample_percentage) ==
    (count * sample_percentage) \div 100

\* max(floor, int(count * sample_percentage / 100))
SampleSize(floor, count, sample_percentage) ==
    Max(floor, (count * sample_percentage) \div 100)

\* variant of _load_json_file that gives up all_rows for a large document,
\* as the delimited loader does
_load_json_file_DropLarge(c, file_path, sample_percentage, large_file_threshold) ==
    LET f == Disk(file_path)
    IN  IF ~f.readable \/ ~f.decodable \/ f.kind # "json" \/ ~f.valid
        THEN Raise(c, "ValueError")
        ELSE
            LET processed_data == _process_json_data(f.root)
                all_rows == processed_data.rows
                sample_size == SampleSize(MinSmallSample, Len(all_rows), sample_percentage)
            IN  Return([c EXCEPT
                    !.headers = Some(processed_data.headers),
                    !.all_rows = IF Len(all_rows) > large_file_threshold
                                 THEN None ELSE Some(all_rows),
                    !.estimated_rows = Some(Len(all_rows)),
                    !.is_large_file = Len(all_rows) > large_file_threshold,
                    !.sample_rows = Some(Prefix(all_rows, sample_size))])

_load_json_file(c, file_path, sample_percentage, large_file_threshold) ==
    LET f == Disk(file_path)
    IN  IF ~f.readable \/ ~f.decodable \/ f.kind # "json" \/ ~f.valid
        THEN Raise(c, "ValueError")
        ELSE
            LET processed_data == _process_json_data(f.root)
                all_rows == processed_data.rows
                sample_size == SampleSize(MinSmallSample, Len(all_rows), sample_percentage)
            IN  Return([c EXCEPT
                    !.headers = Some(processed_data.headers),
                    !.all_rows = Some(all_rows),
                    !.estimated_rows = Some(Len(all_rows)),
                    !.is_large_file = Len(all_rows) > large_file_threshold,
                    !.sample_rows = Some(Prefix(all_rows, sample_size))])

_load_small_csv_file(c, file_path, delimiter, sample_percentage) ==
    LET f == Disk(file_path)
    IN  IF ~OneChar(delimiter) THEN Raise(c, "TypeError")
        ELSE IF f.nlines = 0 THEN Raise(c, "StopIteration")
        ELSE
            LET c1 == [c EXCEPT !.headers = Some(Record(f, 1, delimiter))]
            IN  IF f.badRow # 0 THEN Raise(c1, "csv.Error")
                ELSE
                    LET all_rows == DataRows(f, delimiter)
                        sample_size == SampleSize(MinSmallSample, Len(all_rows),
                                                  sample_percentage)
                    IN  Return([c1 EXCEPT
                            !.all_rows = Some(all_rows),
                            !.sample_rows = Some(Prefix(all_rows, sample_size))])

\* variant of _load_large_csv_file that tests i > sample_target and so keeps
\* one row more than the target
_load_large_csv_file_OneMore(c, file_path, delimiter, sample_percentage) ==
    LET f == Disk(file_path)
        sample_target == SampleSize(MinLargeSample, LargeChunkSize, sample_percentage)
    IN  IF ~OneChar(delimiter) THEN Raise(c, "TypeError")
        ELSE IF f.nlines = 0 THEN Raise(c, "StopIteration")
        ELSE
            LET c1 == [c EXCEPT !.headers = Some(Record(f, 1, delimiter))]
                fetched == Min(NumRows(f), sample_target + 2)
            IN  IF f.badRow # 0 /\ f.badRow <= fetched
                THEN Raise([c1 EXCEPT !.sample_rows =
                                Some(Prefix(DataRows(f, delimiter), f.badRow - 1))],
                           "csv.Error")
                ELSE Return([c1 EXCEPT
                        !.sample_rows = Some(Prefix(DataRows(f, delimiter),
                                                    sample_target + 1)),
                        !.all_rows = None])

_load_large_csv_file(c, file_path, delimiter, sample_percentage) ==
    LET f == Disk(file_path)
        sample_target == SampleSize(MinLargeSample, LargeChunkSize, sample_percentage)
    IN  IF ~OneChar(delimiter) THEN Raise(c, "TypeError")
        ELSE IF f.nlines = 0 THEN Raise(c, "StopIteration")
        ELSE
            LET c1 == [c EXCEPT !.headers = Some(Record(f, 1, delimiter))]
                \* the loop fetches row i + 1 before it tests i >= sample_target
                fetched == Min(NumRows(f), sample_target + 1)
            IN  IF f.badRow # 0 /\ f.badRow <= fetched
                THEN Raise([c1 EXCEPT !.sample_rows =
                                Some(Prefix(DataRows(f, delimiter), f.badRow - 1))],
                           "csv.Error")
                ELSE Return([c1 EXCEPT
                        !.sample_rows = Some(Prefix(DataRows(f, delimiter), sample_target)),
                        !.all_rows = None])

\* len(sample_lines) after the loop of lines 201-204
NumSampleLines(f) == Min(SampleLineLimit, f.nlines)

\* int(file_size / avg_line_size) with avg_line_size = file_size / n.  Both
\* divisions are IEEE double divisions: when n divides file_size they are
\* exact and the result is n; otherwise the rounded quotient of the second
\* lies within one ulp of n, so int() gives n - 1 or n (int(9 / (9 / 7)) is
\* 6).  With no line at all the average is the fallback.
EstimatedRows(f) ==
    LET file_size == FileSize(f)
        n == NumSampleLines(f)
    IN  IF n = 0 THEN {file_size \div FallbackLineSize}
        ELSE IF file_size % n = 0 THEN {n}
        ELSE {n - 1, n}

\* the estimates load_file can compute for a path (one dummy for the paths
\* on which it computes none)
Estimates(file_path) ==
    IF get_file_type(file_path) = "csv" /\ Disk(file_path).kind = "csv"
    THEN EstimatedRows(Disk(file_path)) ELSE {0}

_load_csv_file(c, file_path, delimiter, sample_percentage, large_file_threshold, estimated_rows) ==
    LET f == Disk(file_path)
    IN  IF ~f.readable THEN Raise(c, "FileNotFoundError")
        ELSE IF ~f.decodable THEN Raise(c, "UnicodeDecodeError")
        ELSE
            LET c1 == [c EXCEPT !.is_large_file = estimated_rows > large_file_threshold,
                                !.estimated_rows = Some(estimated_rows)]
            IN  IF c1.is_large_file
                THEN _load_large_csv_file(c1, file_path, delimiter, sample_percentage)
                ELSE _load_small_csv_file(c1, file_path, delimiter, sample_percentage)

\* lines 65-72
FileInfo(c, file_path, delimiter) ==
    [total_rows |-> IF Truthy(c.all_rows) THEN Len(Val(c.all_rows))
                    ELSE IF c.estimated_rows # None THEN Val(c.estimated_rows) ELSE 0,
     delimiter |-> IF c.file_type = Some("csv") THEN delimiter ELSE "N/A (JSON)",
     file_path |-> file_path,
     is_large_file |-> c.is_large_file,
     estimated_rows |-> IF c.estimated_rows # None THEN Val(c.estimated_rows)
                        ELSE IF Truthy(c.all_rows) THEN Len(Val(c.all_rows)) ELSE 0,
     file_type |-> c.file_type]

\* load_file in three parts.  LoadBegin is lines 55-58: clear() and the file
\* type; LoadBody is lines 60-63: the loader chosen by the type just stored;
\* LoadEnd is lines 65-73: file_info and is_loaded.
LoadBegin(c, file_path) ==
    [clear(c) EXCEPT !.file_type = Some(get_file_type(file_path))]

LoadBody(c, file_path, delimiter, sample_percentage, large_file_threshold, estimated_rows) ==
    IF get_file_type(file_path) = "json"
    THEN _load_json_file(c, file_path, sample_percentage, large_file_threshold)
    ELSE _load_csv_file(c, file_path, delimiter, sample_percentage,
                        large_file_threshold, estimated_rows)

LoadEnd(c, file_path, delimiter) ==
    [c EXCEPT !.file_info = Some(FileInfo(c, file_path, delimiter)),
              !.is_loaded = TRUE]

\* load_file; estimated_rows is the outcome of the size estimate's float
\* arithmetic (one of Estimates(file_path))
load_file(c, file_path, delimiter, sample_percentage, large_file_threshold, estimated_rows) ==
    LET r == LoadBody(LoadBegin(c, file_path), file_path, delimiter, sample_percentage,
                      large_file_threshold, estimated_rows)
    IN  IF r.err # "none" THEN r ELSE Return(LoadEnd(r.cache, file_path, delimiter))

-----------------------------------------------------------------------------
(* get_chunk_generator (lines 251-275).  The generator object runs lazily: *)
(* nothing of its body executes before the first next().  st is "created"  *)
(* before that, "suspended" at a yield, "done" after StopIteration and     *)
(* "raised" after an exception; pos counts the rows already served, n is   *)
(* the stop of range() fixed when the loop starts, out the batches yielded *)
(* so far, run the number of generators made since the last load or clear. *)

NoGen ==
    [st |-> "none", chunk_size |-> 0, mode |-> "", n |-> 0, pos |-> 0,
     out |-> <<>>, err |-> "none", run |-> 0]

get_chunk_generator(g, chunk_size) ==
    [st |-> "created", chunk_size |-> chunk_size, mode |-> "", n |-> 0, pos |-> 0,
     out |-> <<>>, err |-> "none", run |-> g.run + 1]

GenRaise(g, e) == [g EXCEPT !.st = "raised", !.err = e]
GenYield(g, batch) ==
    [g EXCEPT !.st = "suspended", !.out = Append(g.out, batch),
              !.pos = g.pos + Len(batch)]

\* all_rows[i:i + chunk_size] of the in-memory branches, evaluated on the
\* cache as it is when the generator resumes
MemStep(c, g) ==
    IF g.pos >= g.n THEN [g EXCEPT !.st = "done"]
    ELSE IF c.all_rows = None THEN GenRaise(g, "TypeError")
    ELSE IF g.pos >= Len(Val(c.all_rows)) THEN GenYield(g, <<>>)
    ELSE GenYield(g, SubSeq(Val(c.all_rows), g.pos + 1,
                            Min(g.pos + g.chunk_size, Len(Val(c.all_rows)))))

\* variant of DiskStep without lines 274-275: the rows left over when the
\* file ends inside a batch are dropped
DiskStep_DropTail(g, f, delimiter) ==
    LET last == Min(g.pos + g.chunk_size, NumRows(f))
    IN  IF f.badRow # 0 /\ g.pos < f.badRow /\ f.badRow <= last
        THEN GenRaise(g, "csv.Error")
        ELSE IF last - g.pos < g.chunk_size THEN [g EXCEPT !.st = "done"]
        ELSE GenYield(g, SubSeq(DataRows(f, delimiter), g.pos + 1, last))

\* the reading loop of lines 268-275 from row pos + 1 of the open file
DiskStep(g, f, delimiter) ==
    LET last == Min(g.pos + g.chunk_size, NumRows(f))
    IN  IF f.badRow # 0 /\ g.pos < f.badRow /\ f.badRow <= last
        THEN GenRaise(g, "csv.Error")
        ELSE IF g.pos >= NumRows(f) THEN [g EXCEPT !.st = "done"]
        ELSE GenYield(g, SubSeq(DataRows(f, delimiter), g.pos + 1, last))

\* one next() on the generator: run its body to the next yield or its end
GenNext(c, g) ==
    IF g.st = "created" THEN
        IF c.file_type = Some("json") THEN
            IF Truthy(c.all_rows)
            THEN MemStep(c, [g EXCEPT !.mode = "mem", !.n = Len(Val(c.all_rows))])
            ELSE [g EXCEPT !.st = "done"]
        ELSE IF ~c.is_large_file /\ Truthy(c.all_rows) THEN
            MemStep(c, [g EXCEPT !.mode = "mem", !.n = Len(Val(c.all_rows))])
        ELSE IF c.file_info = None THEN GenRaise(g, "TypeError")
        ELSE
            LET f == Disk(Val(c.file_info).file_path)
            IN  IF ~f.readable THEN GenRaise(g, "FileNotFoundError")
                ELSE IF ~f.decodable THEN GenRaise(g, "UnicodeDecodeError")
                ELSE IF f.nlines = 0 THEN GenRaise(g, "RuntimeError")
                ELSE DiskStep([g EXCEPT !.mode = "disk"], f, Val(c.file_info).delimiter)
    ELSE IF g.mode = "mem" THEN MemStep(c, g)
    ELSE IF c.file_info = None THEN GenRaise(g, "TypeError")
    ELSE DiskStep(g, Disk(Val(c.file_info).file_path), Val(c.file_info).delimiter)

-----------------------------------------------------------------------------
(* Spec: one caller using a DataCache through its public methods           *)

Delimiters == {",", ";"}
SamplePercentages == {10, DefaultSamplePercentage, 100}
Thresholds == {DefaultLargeFileThreshold, 50}
ChunkSizes == {7, 400, DefaultChunkSize}

NoCall ==
    [file_path |-> P("", ""), delimiter |-> "", sample_percentage |-> 0,
     large_file_threshold |-> 0]

Init ==
    /\ cache = NewCache
    /\ lastError = "none"
    /\ call = NoCall
    /\ gen = NoGen
    /\ prevRows = None
    /\ ui = Unused /\ fmt = Unused /\ inf = Unused /\ js = Unused /\ job = Unused

GenIdle == gen.st \in {"none", "done", "raised"}

\* A load issued once a generator has run starts with the same clear() and
\* reaches the states of Clear followed by LoadFile.
LoadFile(file_path, delimiter, sample_percentage, large_file_threshold) ==
    /\ gen.st = "none"
    /\ \E estimated_rows \in Estimates(file_path) :
          \E r \in {load_file(cache, file_path, delimiter, sample_percentage,
                              large_file_threshold, estimated_rows)} :
              /\ cache' = r.cache
              /\ lastError' = r.err
    /\ call' = [file_path |-> file_path, delimiter |-> delimiter,
                sample_percentage |-> sample_percentage,
                large_file_threshold |-> large_file_threshold]
    /\ gen' = NoGen
    /\ prevRows' = None
    /\ UNCHANGED <<ui, fmt, inf, js, job>>

Clear ==
    /\ GenIdle
    /\ cache' = clear(cache)
    /\ gen' = NoGen
    /\ prevRows' = None
    /\ UNCHANGED <<lastError, call, ui, fmt, inf, js, job>>

GetChunkGenerator(chunk_size) ==
    /\ GenIdle
    /\ gen.run < MaxRuns
    /\ gen' = get_chunk_generator(gen, chunk_size)
    /\ prevRows' = IF gen.st = "done" THEN Some(Flatten(gen.out)) ELSE prevRows
    /\ UNCHANGED <<cache, lastError, call, ui, fmt, inf, js, job>>

NextChunk ==
    /\ gen.st \in {"created", "suspended"}
    /\ gen' = GenNext(cache, gen)
    /\ UNCHANGED <<cache, lastError, call, prevRows, ui, fmt, inf, js, job>>

Next ==
    \/ \E file_path \in Paths, delimiter \in Delimiters,
          sample_percentage \in SamplePercentages, large_file_threshold \in Thresholds :
          LoadFile(file_path, delimiter, sample_percentage, large_file_threshold)
    \/ Clear
    \/ \E chunk_size \in ChunkSizes : GetChunkGenerator(chunk_size)
    \/ NextChunk

Spec == Init /\ [][Next]_vars

-----------------------------------------------------------------------------
(* Properties of the DataCache, checked under Spec                         *)

\* the file the last load_file was pointed at
CallFile == Disk(call.file_path)
CallIsCsv == get_file_type(call.file_path) = "csv" /\ CallFile.kind = "csv"

\* the load returned and took the delimited branch
CsvLoaded == cache.is_loaded /\ CallIsCsv
SmallCsvLoaded == CsvLoaded /\ ~cache.is_large_file
LargeCsvLoaded == CsvLoaded /\ cache.is_large_file

\* the full data-row sequence of the loaded source, in source order
SourceRows ==
    IF CallFile.kind = "json" THEN _process_json_data(CallFile.root).rows
    ELSE [i \in 1..(CallFile.nlines - 1) |-> Record(CallFile, i + 1, call.delimiter)]

\* the source can be read to its end
SourceReadable == CallFile.kind = "json" \/ CallFile.badRow = 0

Ceil(a, b) == (a + b - 1) \div b

\* C1: for a loaded dataset and any chunk size, the generator yields
\* non-empty batches, all but the last of exactly chunk_size rows, that
\* concatenate in order to the data rows of the source (what it has yielded
\* so far is always the prefix served so far, and it does not raise while
\* the source is readable); a second generator on the same cache serves the
\* same rows as the first.
C1_ChunksReproduceRows ==
    (cache.is_loaded /\ SourceReadable /\ gen.st # "none") =>
        /\ gen.st # "raised"
        /\ \A k \in 1..Len(gen.out) :
              /\ Len(gen.out[k]) >= 1
              /\ k < Len(gen.out) => Len(gen.out[k]) = gen.chunk_size
        /\ Flatten(gen.out) = Prefix(SourceRows, gen.pos)
        /\ gen.st = "done" =>
              /\ Flatten(gen.out) = SourceRows
              /\ prevRows # None => Flatten(gen.out) = Val(prevRows)

\* C1 witness: a second generator over a large delimited file has finished
\* after at least three batches, the last one short
C1_Witness ==
    /\ LargeCsvLoaded /\ cache.all_rows = None
    /\ gen.st = "done" /\ gen.run = 2 /\ prevRows # None
    /\ Len(gen.out) >= 3
    /\ Len(gen.out[Len(gen.out)]) < gen.chunk_size

\* C2 (as claimed): after a small delimited load all_rows holds the N data
\* rows and sample_rows is its prefix of length
\* min(N, max(100, ceil(N * sample_percentage / 100))).
C2_SmallSampleCeil ==
    SmallCsvLoaded =>
        LET N == CallFile.nlines - 1
        IN  /\ cache.all_rows = Some(SourceRows)
            /\ Len(Val(cache.all_rows)) = N
            /\ cache.sample_rows =
                  Some(Prefix(SourceRows,
                              Min(N, Max(100, Ceil(N * call.sample_percentage, 100)))))

\* C2 (amended): after a small delimited load all_rows holds the N data rows
\* and sample_rows is its prefix of length
\* min(N, max(100, floor(N * sample_percentage / 100))).
C2_SmallSampleFloor ==
    SmallCsvLoaded =>
        LET N == CallFile.nlines - 1
        IN  /\ cache.all_rows = Some(SourceRows)
            /\ Len(Val(cache.all_rows)) = N
            /\ cache.sample_rows =
                  Some(Prefix(SourceRows,
                              Min(N, Max(100, (N * call.sample_percentage) \div 100))))

\* C2 witness: a small delimited load whose sample is a proper prefix longer
\* than 100 rows, with N * sample_percentage / 100 not an integer
C2_Witness ==
    /\ SmallCsvLoaded
    /\ Len(Val(cache.sample_rows)) > 100
    /\ Len(Val(cache.sample_rows)) < Len(Val(cache.all_rows))
    /\ (Len(Val(cache.all_rows)) * call.sample_percentage) % 100 # 0

\* the estimate as the claims define it: floor(total bytes / average byte
\* length of the first min(100, number of lines) lines), 0 for an empty file
ClaimedEstimate(f) ==
    LET k == Min(100, f.nlines)
    IN  IF k = 0 THEN FileSize(f) \div 100
        ELSE (FileSize(f) * k) \div BytesOfFirst(f, k)

\* C3: a delimited file whose row estimate (total bytes over the average
\* byte length of its leading lines) exceeds large_file_threshold is
\* classified large by load_file, without all_rows.
C3_LargeWhenEstimateExceeds ==
    (CsvLoaded /\ ClaimedEstimate(CallFile) > call.large_file_threshold) =>
        (cache.is_large_file /\ cache.all_rows = None)

\* the load got as far as storing the size estimate
EstimateStored ==
    /\ call # NoCall /\ CallIsCsv
    /\ CallFile.readable /\ CallFile.decodable

\* C4: the stored row estimate of a delimited file is floor(total bytes /
\* average byte length of the first min(100, lines) lines), whatever the
\* number of lines; an empty file gives total bytes / 100.
C4_EstimateFormula ==
    EstimateStored => cache.estimated_rows = Some(ClaimedEstimate(CallFile))

\* C5: after a large delimited load all_rows is absent and sample_rows is
\* the first min(N, max(1000, floor(10000 * sample_percentage / 100))) data
\* rows of the file in file order.
C5_LargeSample ==
    LargeCsvLoaded =>
        LET N == CallFile.nlines - 1
            want == Min(N, Max(1000, (10000 * call.sample_percentage) \div 100))
        IN  /\ cache.all_rows = None
            /\ cache.sample_rows # None
            /\ Len(Val(cache.sample_rows)) = want
            /\ \A i \in 1..want :
                  Val(cache.sample_rows)[i] = Record(CallFile, i + 1, call.delimiter)

\* C5 witness: a large delimited load whose file has more rows than the
\* sample target
C5_Witness ==
    /\ LargeCsvLoaded
    /\ Len(Val(cache.sample_rows)) = 1000
    /\ CallFile.nlines - 1 > 1000

\* C6: when load_file fails the cache is left in the cleared state: no
\* headers, sample_rows, all_rows, file_info or file_type, and is_large_file
\* and is_loaded false.
C6_FailedLoadLeavesEmpty ==
    lastError # "none" =>
        /\ cache.headers = None /\ cache.sample_rows = None
        /\ cache.all_rows = None /\ cache.file_info = None
        /\ cache.file_type = None
        /\ ~cache.is_large_file /\ ~cache.is_loaded

\* the load returned and took the JSON branch
JsonLoaded == cache.is_loaded /\ get_file_type(call.file_path) = "json"

\* C16: after a JSON load all_rows holds every row of the document whether
\* or not their number exceeds large_file_threshold, is_large_file says
\* whether it does, and a generator serves slices of all_rows and does not
\* open the file.
C16_JsonKeepsAllRows ==
    JsonLoaded =>
        /\ cache.all_rows = Some(SourceRows)
        /\ cache.is_large_file = (Len(SourceRows) > call.large_file_threshold)
        /\ gen.st # "none" =>
              /\ gen.mode # "disk" /\ gen.st # "raised"
              /\ Flatten(gen.out) = Prefix(Val(cache.all_rows), gen.pos)
              /\ gen.st = "done" => Flatten(gen.out) = Val(cache.all_rows)

\* C16 witness: a document of JsonBigLen rows loaded with a threshold below
\* that is flagged large, and a generator has served all its rows from
\* memory in several batches
C16_Witness ==
    /\ JsonLoaded /\ cache.is_large_file
    /\ Len(Val(cache.all_rows)) = JsonBigLen
    /\ call.large_file_threshold < JsonBigLen
    /\ gen.st = "done" /\ gen.mode = "mem" /\ Len(gen.out) >= 3

\* exception classes that are I/O errors (OSError and its subclasses) and
\* format errors (ValueError and its subclasses)
IOErrors == {"OSError", "FileNotFoundError", "PermissionError"}
FormatErrors == {"ValueError", "UnicodeDecodeError"}

\* the file of the call can be opened but holds no table: it does not
\* decode, or is invalid JSON, or is a delimited file without a header line
CallMalformed ==
    /\ CallFile.readable
    /\ \/ ~CallFile.decodable
       \/ get_file_type(call.file_path) = "json" /\ CallFile.kind = "json" /\ ~CallFile.valid
       \/ CallIsCsv /\ CallFile.nlines = 0

\* C19: a failed load_file of a path that cannot be opened raises an I/O
\* error; of a file that does not decode, is not valid JSON or has no header
\* line, a format error; and no failure to open is raised as a format error.
C19_ErrorKinds ==
    lastError # "none" =>
        /\ ~CallFile.readable => lastError \in IOErrors
        /\ CallMalformed => lastError \in FormatErrors
        /\ lastError \in FormatErrors => CallFile.readable

\* C20: when total_rows is shown without the estimate marker (a JSON
\* dataset, or a delimited one not flagged large) it is the number of data
\* rows loaded, also for a delimited file of a header line and no data rows.
C20_UnmarkedCountIsExact ==
    (cache.is_loaded /\ SourceReadable /\ (JsonLoaded \/ ~cache.is_large_file)) =>
        /\ cache.all_rows # None
        /\ Val(cache.file_info).total_rows = Len(Val(cache.all_rows))
        /\ Val(cache.file_info).total_rows = Len(SourceRows)

\* every dataset field of cache c is empty or absent
Emptied(c) ==
    /\ c.headers = None /\ c.sample_rows = None /\ c.all_rows = None
    /\ c.file_info = None /\ c.file_type = None /\ c.estimated_rows = None
    /\ ~c.is_loaded /\ ~c.is_large_file

\* C21: a clear() leaves every dataset field empty or absent (headers,
\* sample_rows, all_rows, file_info, file_type, the stored row estimate) and
\* both flags false, whatever was loaded before; and a load_file that fails
\* at opening its file has kept nothing of the dataset held before the call.
C21_ClearResetsAll ==
    [][/\ Clear => Emptied(cache')
       /\ (gen' = NoGen /\ lastError' = "FileNotFoundError") =>
              /\ cache'.headers = None /\ cache'.sample_rows = None
              /\ cache'.all_rows = None /\ cache'.file_info = None
              /\ ~cache'.is_loaded /\ ~cache'.is_large_file]_vars

-----------------------------------------------------------------------------
(* str methods on sequences of one-character strings                       *)

LowerCase ==
    <<"a", "b", "c", "d", "e", "f", "g", "h", "i", "j", "k", "l", "m",
      "n", "o", "p", "q", "r", "s", "t", "u", "v", "w", "x", "y", "z">>
UpperCase ==
    <<"A", "B", "C", "D", "E", "F", "G", "H", "I", "J", "K", "L", "M",
      "N", "O", "P", "Q", "R", "S", "T", "U", "V", "W", "X", "Y", "Z">>

InSeq(seq, x) == \E i \in 1..Len(seq) : seq[i] = x
IndexOf(seq, x) == CHOOSE i \in 1..Len(seq) : seq[i] = x

UpperCh(ch) == IF InSeq(LowerCase, ch) THEN UpperCase[IndexOf(LowerCase, ch)] ELSE ch
LowerCh(ch) == IF InSeq(UpperCase, ch) THEN LowerCase[IndexOf(UpperCase, ch)] ELSE ch
upper(s) == [i \in 1..Len(s) |-> UpperCh(s[i])]
lower(s) == [i \in 1..Len(s) |-> LowerCh(s[i])]

IsSpace(ch) == ch \in {" ", "\t", "\n", "\r"}

RECURSIVE lstrip(_)
lstrip(s) == IF s # <<>> /\ IsSpace(Head(s)) THEN lstrip(Tail(s)) ELSE s
RECURSIVE rstrip(_)
rstrip(s) ==
    IF s # <<>> /\ IsSpace(s[Len(s)]) THEN rstrip(SubSeq(s, 1, Len(s) - 1)) ELSE s
strip(s) == rstrip(lstrip(s))

startswith(s, prefix) ==
    Len(prefix) <= Len(s) /\ SubSeq(s, 1, Len(prefix)) = prefix

\* sub in s
contains(s, sub) ==
    \E i \in 0..(Len(s) - Len(sub)) : SubSeq(s, i + 1, i + Len(sub)) = sub

\* s.replace(old, new) for a one-character old
replace(s, old, new) ==
    ConcatAll([i \in 1..Len(s) |-> IF s[i] = old THEN new ELSE <<s[i]>>])

\* sep.join(strs)
RECURSIVE join(_, _)
join(sep, strs) ==
    IF strs = <<>> THEN <<>>
    ELSE IF Len(strs) = 1 THEN strs[1]
    ELSE strs[1] \o sep \o join(sep, Tail(strs))

-----------------------------------------------------------------------------
(* The INSERT row formatter (src/sqlbuilder.py:442-465) and the column     *)
(* list and row padding of generate_insert_statements_optimized            *)
(* (lines 1300-1307, 1351-1356)                                            *)

INT_IDENTITY == <<"I", "N", "T", " ", "I", "D", "E", "N", "T", "I", "T", "Y">>
UNIQUEIDENTIFIER == <<"U", "N", "I", "Q", "U", "E", "I", "D", "E", "N", "T", "I", "F", "I", "E", "R">>
NEWID == <<"N", "E", "W", "I", "D", "(", ")">>
NULL == <<"N", "U", "L", "L">>

unquoted_keywords ==
    << <<"I", "N", "T">>, <<"F", "L", "O", "A", "T">>, <<"B", "I", "T">>,
       <<"D", "E", "C", "I", "M", "A", "L">>,
       <<"N", "U", "M", "E", "R", "I", "C">>, <<"R", "E", "A", "L">>,
       <<"S", "M", "A", "L", "L", "I", "N", "T">>,
       <<"T", "I", "N", "Y", "I", "N", "T">>,
       <<"B", "I", "G", "I", "N", "T">> >>

is_quoted_type(sql_type) ==
    LET sql_type_upper == upper(strip(sql_type))
    IN  ~\E k \in 1..Len(unquoted_keywords) :
            startswith(sql_type_upper, unquoted_keywords[k])

\* variant of FormattedValue that tests the empty cell before the
\* UNIQUEIDENTIFIER type
FormattedValue_NullFirst(val, sql_type) ==
    LET sql_type_upper == upper(strip(sql_type))
    IN  IF contains(sql_type_upper, INT_IDENTITY) THEN <<>>
        ELSE IF val = <<>> THEN <<NULL>>
        ELSE IF contains(sql_type_upper, UNIQUEIDENTIFIER) /\ strip(val) = <<>>
             THEN <<NEWID>>
        ELSE IF is_quoted_type(sql_type)
             THEN << <<"'">> \o replace(val, "'", <<"'", "'">>) \o <<"'">> >>
        ELSE <<val>>

\* one turn of the loop of format_insert_values (lines 452-464): what it
\* appends to formatted_values for one (val, sql_type) pair
FormattedValue(val, sql_type) ==
    LET sql_type_upper == upper(strip(sql_type))
    IN  IF contains(sql_type_upper, INT_IDENTITY) THEN <<>>
        ELSE IF contains(sql_type_upper, UNIQUEIDENTIFIER) /\ strip(val) = <<>>
             THEN <<NEWID>>
        ELSE IF val = <<>> THEN <<NULL>>
        ELSE IF is_quoted_type(sql_type)
             THEN << <<"'">> \o replace(val, "'", <<"'", "'">>) \o <<"'">> >>
        ELSE <<val>>

\* formatted_values at the end of the loop over zip(row, column_types)
formatted_values(row, column_types) ==
    ConcatAll([j \in 1..Min(Len(row), Len(column_types)) |->
                   FormattedValue(row[j], column_types[j])])

format_insert_values(row, column_types) ==
    <<" ", " ", " ", " ", "(">>
        \o join(<<",", " ">>, formatted_values(row, column_types)) \o <<")">>

\* lines 1300-1307: the positions of the editor rows whose type does not
\* contain INT IDENTITY
RECURSIVE KeptColumns(_, _)
KeptColumns(type_entries, i) ==
    IF i > Len(type_entries) THEN <<>>
    ELSE (IF contains(upper(strip(type_entries[i])), INT_IDENTITY) THEN <<>> ELSE <<i>>)
            \o KeptColumns(type_entries, i + 1)

col_names(column_entries, type_entries) ==
    LET kept == KeptColumns(type_entries, 1)
    IN  [j \in 1..Len(kept) |-> column_entries[kept[j]]]

column_types(type_entries) ==
    LET kept == KeptColumns(type_entries, 1)
    IN  [j \in 1..Len(kept) |-> upper(strip(type_entries[kept[j]]))]

\* lines 1353-1355: [''] * extra_count + row
PadRow(row, types) ==
    LET extra_count == Len(types) - Len(row)
    IN  IF extra_count > 0 THEN [j \in 1..extra_count |-> <<>>] \o row ELSE row

-----------------------------------------------------------------------------
(* SpecFormat: the column editor of the column-definition screen and the   *)
(* formatting of a data row of the file, as format_insert_values is called *)
(* directly (FormatRow) and as INSERT generation calls it (InsertRow)      *)

MaxRowLen == 2                 \* longest data row formatted
max_additional_columns == 1    \* src/config_manager.py default

\* the two columns of the loaded file, as build_column_type_screen lists them
FileHeaders == <<"id", "name">>

T_INT == <<"I", "N", "T">>
T_NVARCHAR == <<"N", "V", "A", "R", "C", "H", "A", "R", "(", "1", "0", ")">>
T_POINT == <<"P", "O", "I", "N", "T">>
T_identity11 == <<"i", "n", "t", " ", "i", "d", "e", "n", "t", "i", "t", "y", "(", "1", ",", "1", ")">>

\* texts of the type comboboxes
Types == {T_INT, INT_IDENTITY, T_identity11, UNIQUEIDENTIFIER, T_NVARCHAR, T_POINT, <<>>}

\* cells of the data rows
Cells == {<<>>, <<" ">>, <<"7">>, <<"a", "'", "b">>}

FormatRows == UNION {[1..n -> Cells] : n \in 1..MaxRowLen}

NoLast == None

DataIdle ==
    /\ cache = NewCache /\ lastError = "none" /\ call = NoCall
    /\ gen = NoGen /\ prevRows = None

InitFormat ==
    /\ DataIdle
    /\ ui = Unused /\ inf = Unused /\ js = Unused /\ job = Unused
    /\ \E row \in FormatRows :
        fmt = [row |-> row,
              column_entries |-> FileHeaders,
              type_entries |-> [i \in 1..Len(FileHeaders) |-> T_NVARCHAR],
              additional_column_count |-> 0,
              last |-> NoLast]

\* the user edits the type combobox of editor row i
SetType(i, t) ==
    /\ i \in 1..Len(fmt.type_entries)
    /\ fmt.type_entries[i] # t
    /\ fmt' = [fmt EXCEPT !.type_entries[i] = t, !.last = NoLast]
    /\ UNCHANGED <<cache, lastError, call, gen, prevRows, ui, inf, js, job>>

add_new_column_row ==
    /\ fmt.additional_column_count < max_additional_columns
    /\ fmt' = [fmt EXCEPT !.column_entries = Append(@, "added"),
                          !.type_entries = Append(@, <<>>),
                          !.additional_column_count = @ + 1,
                          !.last = NoLast]
    /\ UNCHANGED <<cache, lastError, call, gen, prevRows, ui, inf, js, job>>

remove_last_column ==
    /\ fmt.additional_column_count > 0
    /\ Len(fmt.column_entries) > Len(FileHeaders)
    /\ fmt' = [fmt EXCEPT !.column_entries = SubSeq(@, 1, Len(@) - 1),
                          !.type_entries = SubSeq(@, 1, Len(@) - 1),
                          !.additional_column_count = @ - 1,
                          !.last = NoLast]
    /\ UNCHANGED <<cache, lastError, call, gen, prevRows, ui, inf, js, job>>

\* format_insert_values(row, column_types) on the data row with the editor's
\* types as they are
FormatRow ==
    /\ fmt' = [fmt EXCEPT !.last = Some(
                  [op |-> "format", row |-> fmt.row,
                   names |-> fmt.column_entries,
                   types |-> fmt.type_entries,
                   values |-> formatted_values(fmt.row, fmt.type_entries),
                   out |-> format_insert_values(fmt.row, fmt.type_entries)])]
    /\ UNCHANGED <<cache, lastError, call, gen, prevRows, ui, inf, js, job>>

\* the data row through generate_insert_statements_optimized: the column
\* list of lines 1300-1307, the padding of 1353-1355 and the call of 1356
InsertRow ==
    /\ LET names == col_names(fmt.column_entries, fmt.type_entries)
           types == column_types(fmt.type_entries)
           padded == PadRow(fmt.row, types)
       IN  fmt' = [fmt EXCEPT !.last = Some(
                      [op |-> "insert", row |-> fmt.row,
                       names |-> names, types |-> types,
                       values |-> formatted_values(padded, types),
                       out |-> format_insert_values(padded, types)])]
    /\ UNCHANGED <<cache, lastError, call, gen, prevRows, ui, inf, js, job>>

NextFormat ==
    \/ \E i \in 1..(Len(FileHeaders) + max_additional_columns), t \in Types : SetType(i, t)
    \/ add_new_column_row
    \/ remove_last_column
    \/ FormatRow
    \/ InsertRow

SpecFormat == InitFormat /\ [][NextFormat]_vars

-----------------------------------------------------------------------------
(* Properties of the formatter, checked under SpecFormat                   *)

Formatted == fmt.last # None /\ Val(fmt.last).op = "format"
Inserted == fmt.last # None /\ Val(fmt.last).op = "insert"

\* the type with surrounding blanks removed, in upper case
TypeText(type) == upper(strip(type))
IsIdentityMarker(type) == contains(TypeText(type), INT_IDENTITY)
IsUniqueIdentifier(type) == contains(TypeText(type), UNIQUEIDENTIFIER)
IsBlank(cell) == \A i \in 1..Len(cell) : IsSpace(cell[i])
StartsUnquoted(type) ==
    \E k \in {<<"I", "N", "T">>, <<"F", "L", "O", "A", "T">>, <<"B", "I", "T">>,
              <<"D", "E", "C", "I", "M", "A", "L">>,
              <<"N", "U", "M", "E", "R", "I", "C">>, <<"R", "E", "A", "L">>,
              <<"S", "M", "A", "L", "L", "I", "N", "T">>,
              <<"T", "I", "N", "Y", "I", "N", "T">>,
              <<"B", "I", "G", "I", "N", "T">>} :
        startswith(TypeText(type), k)

RECURSIVE DoubleQuotes(_)
DoubleQuotes(cell) ==
    IF cell = <<>> THEN <<>>
    ELSE (IF Head(cell) = "'" THEN <<"'", "'">> ELSE <<Head(cell)>>)
            \o DoubleQuotes(Tail(cell))

\* the value list the rules of C9 give for one (cell, type) pair
RuleValue(cell, type) ==
    IF IsIdentityMarker(type) THEN <<>>
    ELSE IF IsUniqueIdentifier(type) /\ IsBlank(cell) THEN <<NEWID>>
    ELSE IF cell = <<>> THEN <<NULL>>
    ELSE IF ~StartsUnquoted(type) THEN << <<"'">> \o DoubleQuotes(cell) \o <<"'">> >>
    ELSE <<cell>>

\* C9: format_insert_values applies to each (cell, type) pair, in column
\* order, the first matching rule of: INT IDENTITY marker -> nothing;
\* UNIQUEIDENTIFIER and blank cell -> NEWID(); empty cell -> NULL; type not
\* starting with an unquoted keyword -> the cell in single quotes with its
\* quotes doubled; otherwise the raw cell.  The values are joined with ", "
\* inside "    (" and ")".
C9_FirstMatchingRule ==
    Formatted =>
        LET l == Val(fmt.last)
            n == Min(Len(l.row), Len(l.types))
            rule == ConcatAll([j \in 1..n |-> RuleValue(l.row[j], l.types[j])])
        IN  /\ l.values = rule
            /\ l.out = <<" ", " ", " ", " ", "(">> \o join(<<",", " ">>, rule) \o <<")">>

\* C9 witness: a row with a quote in a quoted column and an empty cell in a
\* UNIQUEIDENTIFIER column has been formatted as ('a''b', NEWID())
C9_Witness ==
    /\ Formatted
    /\ Val(fmt.last).row = << <<"a", "'", "b">>, <<>> >>
    /\ Val(fmt.last).types = <<T_NVARCHAR, UNIQUEIDENTIFIER>>
    /\ Val(fmt.last).out =
          <<" ", " ", " ", " ", "(", "'", "a", "'", "'", "b", "'", ",", " ",
            "N", "E", "W", "I", "D", "(", ")", ")">>

\* the editor rows that are not INT IDENTITY columns, in editor order
Listed == SelectSeq([i \in 1..Len(fmt.type_entries) |-> i],
                    LAMBDA i : ~IsIdentityMarker(fmt.type_entries[i]))

\* the source cell of editor column i in a row ("" when the row has none)
CellOf(row, i) == IF i <= Len(row) THEN row[i] ELSE <<>>

\* C8: in the tuple INSERT generation writes for a row, there are as many
\* values as listed column names, the listed columns are the editor's
\* columns that are not INT IDENTITY, and value j is the formatting of the
\* row's cell of the j-th listed column with that column's type.
C8_ValuesPairWithColumns ==
    Inserted =>
        LET l == Val(fmt.last)
        IN  /\ Len(l.values) = Len(l.names)
            /\ l.names = [j \in 1..Len(Listed) |-> fmt.column_entries[Listed[j]]]
            /\ \A j \in 1..Len(Listed) :
                  j <= Len(l.values)
                  /\ <<l.values[j]>> = RuleValue(CellOf(l.row, Listed[j]),
                                                 fmt.type_entries[Listed[j]])

-----------------------------------------------------------------------------
(* OptimizedTypeInferrer (src/sqlbuilder.py:277-356).  A cell is a         *)
(* sequence of characters; a column's tally is the sequence of             *)
(* <<bucket, count>> pairs of its defaultdict in insertion order.          *)

IsDigit(ch) == ch \in {"0", "1", "2", "3", "4", "5", "6", "7", "8", "9"}
AllDigits(s) == \A i \in 1..Len(s) : IsDigit(s[i])

\* -? at the start of a pattern: the text left once an optional '-' is taken
AfterSign(value) ==
    IF value # <<>> /\ Head(value) = "-" THEN Tail(value) ELSE value

\* re.compile(r'^-?\d+$').match(value)
int_pattern(value) ==
    LET r == AfterSign(value) IN r # <<>> /\ AllDigits(r)

\* re.compile(r'^-?\d*\.\d+$').match(value)
float_pattern(value) ==
    LET r == AfterSign(value)
    IN  \E k \in 0..Len(r) :
            /\ AllDigits(SubSeq(r, 1, k))
            /\ k + 1 <= Len(r) /\ r[k + 1] = "."
            /\ k + 2 <= Len(r) /\ AllDigits(SubSeq(r, k + 2, Len(r)))

\* the four date patterns; "d" stands for \d, any other character for itself
date_patterns ==
    << <<"d", "d", "d", "d", "-", "d", "d", "-", "d", "d">>,
       <<"d", "d", "/", "d", "d", "/", "d", "d", "d", "d">>,
       <<"d", "d", "d", "d", "-", "d", "d", "-", "d", "d", " ", "d", "d", ":", "d", "d", ":", "d", "d">>,
       <<"d", "d", "-", "d", "d", "-", "d", "d", "d", "d">> >>

\* pattern.match(value) for a pattern of date_patterns
MatchPattern(pattern, value) ==
    /\ Len(value) = Len(pattern)
    /\ \A i \in 1..Len(pattern) :
          IF pattern[i] = "d" THEN IsDigit(value[i]) ELSE value[i] = pattern[i]

BitWords == {<<"0">>, <<"1">>, <<"t", "r", "u", "e">>, <<"f", "a", "l", "s", "e">>}

\* variant of Classify that tries the integer pattern before the BIT words
Classify_IntFirst(value) ==
    IF int_pattern(value) THEN "INT"
    ELSE IF lower(value) \in BitWords THEN "BIT"
    ELSE IF float_pattern(value) THEN "FLOAT"
    ELSE IF \E k \in 1..Len(date_patterns) : MatchPattern(date_patterns[k], value)
         THEN "DATETIME"
    ELSE "VARCHAR"

\* the if/elif chain of lines 319-328 on a non-empty trimmed value
Classify(value) ==
    IF lower(value) \in BitWords THEN "BIT"
    ELSE IF int_pattern(value) THEN "INT"
    ELSE IF float_pattern(value) THEN "FLOAT"
    ELSE IF \E k \in 1..Len(date_patterns) : MatchPattern(date_patterns[k], value)
         THEN "DATETIME"
    ELSE "VARCHAR"

\* type_votes[col_idx][bucket] += 1 on a defaultdict(int)
AddVote(votes, bucket) ==
    IF \E j \in 1..Len(votes) : votes[j][1] = bucket
    THEN [j \in 1..Len(votes) |->
             IF votes[j][1] = bucket THEN <<bucket, votes[j][2] + 1>> ELSE votes[j]]
    ELSE Append(votes, <<bucket, 1>>)

\* the tallies before any row
NoTally(column_count) ==
    [type_votes |-> [c \in 1..column_count |-> <<>>],
     max_lengths |-> [c \in 1..column_count |-> 0]]

\* one cell of a row (lines 311-328)
TallyCell(t, col_idx, cell) ==
    LET value == strip(cell)
        t1 == [t EXCEPT !.max_lengths[col_idx] = Max(@, Len(value))]
    IN  IF value = <<>> THEN t1
        ELSE [t1 EXCEPT !.type_votes[col_idx] = AddVote(@, Classify(value))]

\* one row: padded with '' to column_count cells and cut to column_count
RECURSIVE TallyRow(_, _, _, _)
TallyRow(t, row, col_idx, column_count) ==
    IF col_idx > column_count THEN t
    ELSE TallyRow(TallyCell(t, col_idx, IF col_idx <= Len(row) THEN row[col_idx] ELSE <<>>),
                  row, col_idx + 1, column_count)

RECURSIVE TallyRows(_, _, _)
TallyRows(t, rows, column_count) ==
    IF rows = <<>> THEN t
    ELSE TallyRows(TallyRow(t, Head(rows), 1, column_count), Tail(rows), column_count)

\* variant of BestType that takes the last key with the largest count
BestType_LastMax(votes) ==
    LET j == CHOOSE j \in 1..Len(votes) :
                 /\ \A i \in 1..Len(votes) : votes[i][2] <= votes[j][2]
                 /\ \A i \in (j + 1)..Len(votes) : votes[i][2] < votes[j][2]
    IN  votes[j][1]

\* max(votes.keys(), key=lambda k: votes[k]): the first key, in insertion
\* order, with the largest count
BestType(votes) ==
    LET j == CHOOSE j \in 1..Len(votes) :
                 /\ \A i \in 1..Len(votes) : votes[i][2] <= votes[j][2]
                 /\ \A i \in 1..(j - 1) : votes[i][2] < votes[j][2]
    IN  votes[j][1]

\* variant of FinalType whose widths are one step too narrow
FinalType_Narrow(votes, max_len) ==
    IF votes = <<>> THEN "NVARCHAR(255)"
    ELSE IF BestType(votes) = "VARCHAR" THEN
        IF max_len <= 50 THEN "NVARCHAR(10)"
        ELSE IF max_len <= 255 THEN "NVARCHAR(50)"
        ELSE IF max_len <= 4000 THEN "NVARCHAR(255)"
        ELSE "NVARCHAR(MAX)"
    ELSE BestType(votes)

\* variant of FinalType whose column without votes goes down the width
\* ladder with its max_len of 0
FinalType_NoDefault(votes, max_len) ==
    IF votes = <<>> THEN "NVARCHAR(10)"
    ELSE IF BestType(votes) = "VARCHAR" THEN
        IF max_len <= 10 THEN "NVARCHAR(10)"
        ELSE IF max_len <= 50 THEN "NVARCHAR(50)"
        ELSE IF max_len <= 255 THEN "NVARCHAR(255)"
        ELSE IF max_len <= 4000 THEN "NVARCHAR(" \o ToString(max_len) \o ")"
        ELSE "NVARCHAR(MAX)"
    ELSE BestType(votes)

\* lines 331-354 for one column
FinalType(votes, max_len) ==
    IF votes = <<>> THEN "NVARCHAR(255)"
    ELSE IF BestType(votes) = "VARCHAR" THEN
        IF max_len <= 10 THEN "NVARCHAR(10)"
        ELSE IF max_len <= 50 THEN "NVARCHAR(50)"
        ELSE IF max_len <= 255 THEN "NVARCHAR(255)"
        ELSE IF max_len <= 4000 THEN "NVARCHAR(" \o ToString(max_len) \o ")"
        ELSE "NVARCHAR(MAX)"
    ELSE BestType(votes)

max_sample == 1000

\* infer_column_types; the tallies are returned with the types so that they
\* can be inspected
infer_column_types(sample_rows, headers) ==
    IF sample_rows = <<>>
    THEN [type_votes |-> <<>>, max_lengths |-> <<>>,
          inferred_types |-> [c \in 1..Len(headers) |-> "NVARCHAR(255)"]]
    ELSE
        LET column_count == Len(headers)
            sample_data == Prefix(sample_rows, max_sample)
            t == TallyRows(NoTally(column_count), sample_data, column_count)
        IN  [type_votes |-> t.type_votes, max_lengths |-> t.max_lengths,
             inferred_types |-> [c \in 1..column_count |->
                                    FinalType(t.type_votes[c], t.max_lengths[c])]]

-----------------------------------------------------------------------------
(* SpecInfer: infer_column_types applied to samples of a two-column file   *)

MaxCellLen == 3       \* longest cell drawn from the alphabet
MaxSampleRows == 2    \* rows of the samples with several rows

InferHeaders == <<"a", "b">>

Alphabet == {"1", "5", "-", ".", " ", "a"}

\* every text over the alphabet up to MaxCellLen characters
ShortCells == UNION {[1..n -> Alphabet] : n \in 0..MaxCellLen}

\* longer cells: the BIT words and texts at and near the date patterns
NamedCells ==
    { <<"t", "r", "u", "e">>,
      <<"T", "R", "U", "E">>,
      <<"F", "a", "l", "s", "e">>,
      <<" ", "f", "a", "l", "s", "e", " ">>,
      <<"0">>,
      <<"t", "r", "u">>,
      <<"2", "0", "2", "4", "-", "0", "1", "-", "1", "5">>,
      <<"0", "1", "/", "1", "5", "/", "2", "0", "2", "4">>,
      <<"2", "0", "2", "4", "-", "0", "1", "-", "1", "5", " ", "1", "0", ":", "2", "0", ":", "3", "0">>,
      <<"1", "5", "-", "0", "1", "-", "2", "0", "2", "4">>,
      <<"2", "0", "2", "4", "-", "1", "-", "1", "5">>,
      <<"2", "0", "2", "4", "-", "0", "1", "-", "1", "5", " ">>,
      <<"1", "5", "/", "0", "1", "/", "2", "4">>,
      <<"-", "1", ".", "5">>,
      <<"1", "e", "5">>,
      <<"1", ".", "5", ".", "1">>,
      <<"1", "2", "3", "4", "5", "6", "7", "8", "9", "0", "1">> }

\* cells of the samples with several rows
FewCells == {<<>>, <<"1">>, <<"5">>, <<"a">>, <<"1", ".", "5">>}

FewRows == UNION {[1..n -> FewCells] : n \in 1..Len(InferHeaders)}

\* a cell of n letters
LongCell(n) == [i \in 1..n |-> "a"]

\* cells at and next to the width limits of lines 343-352
LongCells == {LongCell(n) : n \in {10, 11, 50, 51, 255, 256, 4000, 4001}}

\* a column whose longest cell is a number outvoted by two words
MixedSample ==
    << << <<"a">> >>, << <<"a", "a">> >>,
       << <<"1", "2", "3", "4", "5", "6", "7", "8", "9", "0", "1">> >> >>

InferSamples ==
    {<<>>, MixedSample}
      \cup {<< <<cell>> >> : cell \in ShortCells \cup NamedCells \cup LongCells}
      \cup UNION {[1..n -> FewRows] : n \in 2..MaxSampleRows}

InitInfer ==
    /\ DataIdle
    /\ ui = Unused /\ fmt = Unused /\ js = Unused /\ job = Unused
    /\ \E sample_rows \in InferSamples :
          inf = [sample_rows |-> sample_rows, headers |-> InferHeaders, result |-> None]

InferColumnTypes ==
    /\ inf.result = None
    /\ inf' = [inf EXCEPT !.result = Some(infer_column_types(inf.sample_rows, inf.headers))]
    /\ UNCHANGED <<cache, lastError, call, gen, prevRows, ui, fmt, js, job>>

NextInfer == InferColumnTypes

SpecInfer == InitInfer /\ [][NextInfer]_vars

-----------------------------------------------------------------------------
(* Properties of the type inferrer, checked under SpecInfer                *)

Inferred == inf.result # None /\ inf.sample_rows # <<>>

DigitsIn(s, from, to) == to <= Len(s) /\ \A i \in from..to : IsDigit(s[i])

\* optional '-' then digits only
IntShape(v) ==
    \E sign \in {<<>>, <<"-">>} :
        /\ startswith(v, sign)
        /\ Len(v) > Len(sign)
        /\ DigitsIn(v, Len(sign) + 1, Len(v))

\* optional '-', digits (possibly none), '.', one or more digits
FloatShape(v) ==
    \E dot \in 1..Len(v) :
        /\ v[dot] = "."
        /\ dot < Len(v) /\ DigitsIn(v, dot + 1, Len(v))
        /\ \/ DigitsIn(v, 1, dot - 1)
           \/ (v[1] = "-" /\ DigitsIn(v, 2, dot - 1))

\* YYYY-MM-DD, MM/DD/YYYY, YYYY-MM-DD HH:MM:SS, DD-MM-YYYY
DateShape(v) ==
    \/ /\ Len(v) = 10 /\ DigitsIn(v, 1, 4) /\ v[5] = "-" /\ DigitsIn(v, 6, 7)
       /\ v[8] = "-" /\ DigitsIn(v, 9, 10)
    \/ /\ Len(v) = 10 /\ DigitsIn(v, 1, 2) /\ v[3] = "/" /\ DigitsIn(v, 4, 5)
       /\ v[6] = "/" /\ DigitsIn(v, 7, 10)
    \/ /\ Len(v) = 19 /\ DigitsIn(v, 1, 4) /\ v[5] = "-" /\ DigitsIn(v, 6, 7)
       /\ v[8] = "-" /\ DigitsIn(v, 9, 10) /\ v[11] = " " /\ DigitsIn(v, 12, 13)
       /\ v[14] = ":" /\ DigitsIn(v, 15, 16) /\ v[17] = ":" /\ DigitsIn(v, 18, 19)
    \/ /\ Len(v) = 10 /\ DigitsIn(v, 1, 2) /\ v[3] = "-" /\ DigitsIn(v, 4, 5)
       /\ v[6] = "-" /\ DigitsIn(v, 7, 10)

\* the bucket C10 gives a non-empty trimmed cell
VoteOf(v) ==
    IF lower(v) \in {<<"0">>, <<"1">>, <<"t", "r", "u", "e">>, <<"f", "a", "l", "s", "e">>}
    THEN "BIT"
    ELSE IF IntShape(v) THEN "INT"
    ELSE IF FloatShape(v) THEN "FLOAT"
    ELSE IF DateShape(v) THEN "DATETIME"
    ELSE "VARCHAR"

Buckets == {"BIT", "INT", "FLOAT", "DATETIME", "VARCHAR"}

\* the trimmed cell of row r in column c ("" where the row is short)
TrimmedCell(r, c) ==
    IF c <= Len(inf.sample_rows[r]) THEN strip(inf.sample_rows[r][c]) ELSE <<>>

\* votes of column c for bucket b in the tally
VotesFor(c, b) ==
    LET votes == Val(inf.result).type_votes[c]
    IN  IF \E j \in 1..Len(votes) : votes[j][1] = b
        THEN votes[CHOOSE j \in 1..Len(votes) : votes[j][1] = b][2]
        ELSE 0

\* C10: every non-empty trimmed cell casts exactly one vote for its column,
\* for the first of BIT (0, 1, true, false in any case), INT, FLOAT,
\* DATETIME that fits and VARCHAR otherwise, and empty cells cast none: each
\* column's count for each bucket is the number of its cells of that bucket,
\* and no other bucket and no bucket twice appears in a tally.
C10_OneVoteInOrder ==
    Inferred =>
        \A c \in 1..Len(inf.headers) :
            LET votes == Val(inf.result).type_votes[c]
            IN  /\ \A j \in 1..Len(votes) : votes[j][1] \in Buckets /\ votes[j][2] >= 1
                /\ \A i, j \in 1..Len(votes) : votes[i][1] = votes[j][1] => i = j
                /\ \A b \in Buckets :
                      VotesFor(c, b) =
                          Cardinality({r \in 1..Len(inf.sample_rows) :
                              TrimmedCell(r, c) # <<>> /\ VoteOf(TrimmedCell(r, c)) = b})

\* C10 witness: of the rows ("1") and ("5", "a") the first column has one
\* BIT and one INT vote and the second, with one empty cell, one VARCHAR vote
C10_Witness ==
    /\ Inferred
    /\ inf.sample_rows = << << <<"1">> >>, << <<"5">>, <<"a">> >> >>
    /\ Val(inf.result).type_votes =
          << << <<"BIT", 1>>, <<"INT", 1>> >>, << <<"VARCHAR", 1>> >> >>

\* the bucket of the cell of row r in column c ("" for a cell that casts no
\* vote)
BucketAt(r, c) ==
    IF TrimmedCell(r, c) = <<>> THEN "" ELSE VoteOf(TrimmedCell(r, c))

\* number of the sample's cells of column c that vote for bucket b
CountOf(c, b) == Cardinality({r \in 1..Len(inf.sample_rows) : BucketAt(r, c) = b})

\* the first row whose cell of column c votes for bucket b
FirstVote(c, b) ==
    CHOOSE r \in 1..Len(inf.sample_rows) :
        BucketAt(r, c) = b /\ \A q \in 1..(r - 1) : BucketAt(q, c) # b

\* the bucket with the most votes in column c and, among those with the most
\* votes, the one voted for first
Winner(c) ==
    CHOOSE b \in Buckets :
        /\ CountOf(c, b) >= 1
        /\ \A o \in Buckets : CountOf(c, o) <= CountOf(c, b)
        /\ \A o \in Buckets \ {b} :
              CountOf(c, o) = CountOf(c, b) => FirstVote(c, b) < FirstVote(c, o)

HasVotes(c) == \E b \in Buckets : CountOf(c, b) >= 1

\* the longest trimmed cell of column c in the sample
MaxTrimmed(c) ==
    LET lens == {Len(TrimmedCell(r, c)) : r \in 1..Len(inf.sample_rows)}
    IN  CHOOSE l \in lens : \A k \in lens : k <= l

\* the type C12 gives a VARCHAR column whose longest trimmed cell has L
\* characters
WidthType(L) ==
    IF L <= 10 THEN "NVARCHAR(10)"
    ELSE IF L <= 50 THEN "NVARCHAR(50)"
    ELSE IF L <= 255 THEN "NVARCHAR(255)"
    ELSE IF L <= 4000 THEN "NVARCHAR(" \o ToString(L) \o ")"
    ELSE "NVARCHAR(MAX)"

\* the declared widths and what they hold
Holds(type, L) ==
    \/ type = "NVARCHAR(MAX)"
    \/ type = "NVARCHAR(10)" /\ L <= 10
    \/ type = "NVARCHAR(50)" /\ L <= 50
    \/ type = "NVARCHAR(255)" /\ L <= 255
    \/ type = "NVARCHAR(" \o ToString(L) \o ")"

\* C11: infer_column_types returns one type per header; a column with votes
\* gets the bucket with the most votes (VARCHAR rendered as an NVARCHAR
\* width), and among buckets tied for the most votes the one whose first
\* vote came in the earliest row.
C11_MostVotesFirstSeen ==
    inf.result # None =>
        LET types == Val(inf.result).inferred_types
        IN  /\ Len(types) = Len(inf.headers)
            /\ \A c \in 1..Len(inf.headers) :
                  (inf.sample_rows # <<>> /\ HasVotes(c)) =>
                      IF Winner(c) = "VARCHAR"
                      THEN types[c] \notin Buckets
                      ELSE types[c] = Winner(c)

\* C11 witness: of the rows ("5") and ("1") the first column has one INT and
\* one BIT vote, INT first, and is typed INT; the second has no vote
C11_Witness ==
    /\ Inferred
    /\ inf.sample_rows = << << <<"5">> >>, << <<"1">> >> >>
    /\ CountOf(1, "INT") = 1 /\ CountOf(1, "BIT") = 1
    /\ Val(inf.result).inferred_types[1] = "INT"
    /\ Len(Val(inf.result).inferred_types) = 2

\* C12: a column won by VARCHAR whose longest trimmed cell in the sample has
\* L characters is typed NVARCHAR(10) for L <= 10, NVARCHAR(50) for L <= 50,
\* NVARCHAR(255) for L <= 255, NVARCHAR(L) for L <= 4000 and NVARCHAR(MAX)
\* beyond, so every trimmed cell of the column fits the declared width,
\* whatever bucket it voted for.
C12_VarcharWidth ==
    Inferred =>
        \A c \in 1..Len(inf.headers) :
            (HasVotes(c) /\ Winner(c) = "VARCHAR") =>
                /\ Val(inf.result).inferred_types[c] = WidthType(MaxTrimmed(c))
                /\ \A r \in 1..Len(inf.sample_rows) :
                      \E L \in Len(TrimmedCell(r, c))..MaxTrimmed(c) :
                          Holds(Val(inf.result).inferred_types[c], L)

\* C12 witness: two words outvote a number of 11 digits, which sets the
\* width of the column to 50
C12_Witness ==
    /\ Inferred
    /\ inf.sample_rows = MixedSample
    /\ Winner(1) = "VARCHAR" /\ MaxTrimmed(1) = 11
    /\ Val(inf.result).inferred_types[1] = "NVARCHAR(50)"

\* column c has no evidence: in every sampled row its cell is empty or the
\* row is too short to have it
NoEvidence(c) ==
    \A r \in 1..Len(inf.sample_rows) :
        c > Len(inf.sample_rows[r]) \/ inf.sample_rows[r][c] = <<>>

\* C23: infer_column_types returns a type for every header whatever the
\* sample: NVARCHAR(255) for every header when the sample is empty, and
\* NVARCHAR(255) for every column whose sampled cells are all empty or
\* missing when it is not.
C23_DefaultWithoutEvidence ==
    inf.result # None =>
        /\ Len(Val(inf.result).inferred_types) = Len(inf.headers)
        /\ \A c \in 1..Len(inf.headers) :
              (inf.sample_rows = <<>> \/ NoEvidence(c)) =>
                  Val(inf.result).inferred_types[c] = "NVARCHAR(255)"

\* C23 witness: a sample of two rows whose first column has a value and
\* whose second column is an empty cell in one row and missing in the other
C23_Witness ==
    /\ inf.result # None
    /\ Len(inf.sample_rows) = 2
    /\ Len(inf.sample_rows[1]) = 2 /\ inf.sample_rows[1][2] = <<>>
    /\ Len(inf.sample_rows[2]) = 1
    /\ ~NoEvidence(1) /\ NoEvidence(2)
    /\ Val(inf.result).inferred_types[2] = "NVARCHAR(255)"
    /\ Val(inf.result).inferred_types[1] # "NVARCHAR(255)"

-----------------------------------------------------------------------------
(* SpecColumns: the types inferred from the sample are put into the type   *)
(* comboboxes (set_inferred_types_async, lines 1458-1512) and the rows of  *)
(* the file are formatted with them (generate_insert_statements_optimized, *)
(* lines 1300-1356).  The file is small: its sample holds all its rows.    *)

MaxFileRows == 2    \* data rows of the file

\* the characters of an inferred type, as combo.insert(0, inferred_type)
\* puts them into the combobox
TypeChars(inferred_type) ==
    CASE inferred_type = "BIT" -> <<"B", "I", "T">>
      [] inferred_type = "INT" -> <<"I", "N", "T">>
      [] inferred_type = "FLOAT" -> <<"F", "L", "O", "A", "T">>
      [] inferred_type = "DATETIME" -> <<"D", "A", "T", "E", "T", "I", "M", "E">>
      [] inferred_type = "NVARCHAR(10)" ->
            <<"N", "V", "A", "R", "C", "H", "A", "R", "(", "1", "0", ")">>
      [] inferred_type = "NVARCHAR(50)" ->
            <<"N", "V", "A", "R", "C", "H", "A", "R", "(", "5", "0", ")">>
      [] inferred_type = "NVARCHAR(255)" ->
            <<"N", "V", "A", "R", "C", "H", "A", "R", "(", "2", "5", "5", ")">>
      [] inferred_type = "NVARCHAR(MAX)" ->
            <<"N", "V", "A", "R", "C", "H", "A", "R", "(", "M", "A", "X", ")">>

\* cells and rows of the file: rows of one cell are short of its two headers
ColumnCells == {<<>>, <<" ">>, <<"7">>, <<"a">>}
ColumnRows == UNION {[1..n -> ColumnCells] : n \in 1..Len(InferHeaders)}
ColumnFiles == UNION {[1..n -> ColumnRows] : n \in 1..MaxFileRows}

\* the column screen as build_column_type_screen makes it for the loaded
\* file, with the columns the user then added
InitColumns ==
    /\ DataIdle
    /\ ui = Unused /\ fmt = Unused /\ js = Unused /\ job = Unused
    /\ \E rows \in ColumnFiles, added \in 0..max_additional_columns :
          inf = [sample_rows |-> rows, headers |-> InferHeaders,
                 column_entries |-> InferHeaders \o [j \in 1..added |-> "added"],
                 type_entries |-> [j \in 1..(Len(InferHeaders) + added) |-> <<>>],
                 result |-> None, inserted |-> None]

\* infer_task and its update_ui: the inferred types replace the text of the
\* type comboboxes of the original columns
set_inferred_types_async ==
    /\ inf.result = None
    /\ LET r == infer_column_types(inf.sample_rows, inf.headers)
       IN  inf' = [inf EXCEPT
                     !.result = Some(r),
                     !.type_entries = [j \in 1..Len(inf.type_entries) |->
                                          IF j <= Len(inf.headers)
                                          THEN TypeChars(r.inferred_types[j])
                                          ELSE inf.type_entries[j]]]
    /\ UNCHANGED <<cache, lastError, call, gen, prevRows, ui, fmt, js, job>>

\* generate_insert_statements_optimized on the rows of the file: the column
\* list of lines 1300-1307 and, for each row, the padding of 1353-1355 and
\* format_insert_values
generate_insert_statements_optimized ==
    /\ inf.result # None /\ inf.inserted = None
    /\ LET names == col_names(inf.column_entries, inf.type_entries)
           types == column_types(inf.type_entries)
       IN  inf' = [inf EXCEPT !.inserted = Some(
                      [names |-> names, types |-> types,
                       values |-> [r \in 1..Len(inf.sample_rows) |->
                                      formatted_values(PadRow(inf.sample_rows[r], types),
                                                       types)]])]
    /\ UNCHANGED <<cache, lastError, call, gen, prevRows, ui, fmt, js, job>>

NextColumns ==
    \/ set_inferred_types_async
    \/ generate_insert_statements_optimized

SpecColumns == InitColumns /\ [][NextColumns]_vars

-----------------------------------------------------------------------------
(* Properties of inference and formatting together, checked under          *)
(* SpecColumns                                                             *)

\* the statements of the file's rows have been generated
Generated == inf.inserted # None

\* C26: every present cell of a data row is attributed to one column by
\* type inference and by INSERT generation: the cell at index i casts its
\* vote in the tally of column i and is the value emitted for column i, also
\* in a row shorter than the column list (a short row, or a column added
\* after the columns of the file).
C26_SameColumn ==
    Generated =>
        \A r \in 1..Len(inf.sample_rows) :
            \A i \in 1..Min(Len(inf.sample_rows[r]), Len(inf.headers)) :
                /\ TrimmedCell(r, i) # <<>> =>
                      VotesFor(i, VoteOf(TrimmedCell(r, i))) > 0
                /\ Val(inf.inserted).names[i] = inf.headers[i]
                /\ Val(inf.inserted).values[r][i]
                      = FormattedValue(inf.sample_rows[r][i], Val(inf.inserted).types[i])[1]

\* the text is a literal of the unquoted type: a BIT word for BIT, an
\* integer for INT, an integer or a decimal number for FLOAT
LiteralOf(text, type) ==
    CASE type = <<"B", "I", "T">> -> lower(text) \in BitWords
      [] type = <<"I", "N", "T">> -> int_pattern(text)
      [] type = <<"F", "L", "O", "A", "T">> -> int_pattern(text) \/ float_pattern(text)
      [] OTHER -> FALSE

\* C28: every value emitted for a column whose type is not quoted is NULL,
\* NEWID() or a literal of that type; a column inferred BIT, INT or FLOAT
\* by the votes of the sample never has a non-numeric or whitespace-only
\* cell written without quotes.
C28_UnquotedIsLiteral ==
    Generated =>
        \A r \in 1..Len(inf.sample_rows) :
            \A i \in 1..Len(Val(inf.inserted).values[r]) :
                LET value == Val(inf.inserted).values[r][i]
                    type == Val(inf.inserted).types[i]
                IN  ~is_quoted_type(type) =>
                        value = NULL \/ value = NEWID \/ LiteralOf(value, type)

-----------------------------------------------------------------------------
(* SpecUI: the Tk front end (SQLTableBuilder, src/sqlbuilder.py:441-2009)  *)
(* on one DataCache.  The handlers of the UI thread run one at a time;     *)
(* the tasks they submit run on the pool's worker threads, a step at a     *)
(* time, interleaved with the handlers and with each other.  A task owns   *)
(* the ProgressWindow made when it was submitted: a modal dialog (grab_set)*)
(* that keeps the user from the main window while it exists.               *)

MaxTasks == 3        \* tasks submitted in one run
max_workers == 2     \* ThreadPoolExecutor(max_workers=2)

NoPath == P("", "")

\* the files the user can pick in the file dialog
UIPaths == {P("s3", ".csv"), P("objs", ".json")}

\* infer_delimiter (lines 865-874): the candidate counted most often in the
\* first line, ',' when the file cannot be read; ',' for each file of UIPaths
infer_delimiter(path) == ","

\* ProgressWindow.__init__ and executor.submit: a task waiting for a worker
NewTask(kind, path) ==
    [kind |-> kind, pc |-> "queued", path |-> path, delimiter_val |-> "",
     cancelled |-> FALSE, window |-> "open", g |-> NoGen]

\* the DataCache operation a step performed, and the thread that performed
\* it (0: the UI thread, t: the worker running task t)
Op(name, by) == [name |-> name, by |-> by]
NoOp == Op("none", 0)

InitUI ==
    /\ cache = NewCache
    /\ lastError = "none" /\ call = NoCall /\ gen = NoGen /\ prevRows = None
    /\ fmt = Unused /\ inf = Unused /\ js = Unused /\ job = Unused
    /\ ui = [screen |-> "select", file_path |-> NoPath, delimiter |-> "",
             buttons |-> FALSE, headers |-> None, tasks |-> <<>>, afterQ |-> <<>>,
             errors |-> {}, outFile |-> "absent", op |-> NoOp]

Tasks == 1..Len(ui.tasks)

\* no progress dialog holds the grab: the main window takes input
UserFree == \A t \in Tasks : ui.tasks[t].window = "destroyed"

CanSubmit == Len(ui.tasks) < MaxTasks

Submit(u, kind, path) == [u EXCEPT !.tasks = Append(@, NewTask(kind, path))]

\* browse_file with a file chosen in the dialog; auto_preview_data is on, so
\* on_apply_preview_percentage follows and, the cache just cleared, calls
\* load_file_for_preview
browse_file(selected_path) ==
    /\ ui.screen = "select" /\ UserFree /\ CanSubmit
    /\ cache' = clear(cache)
    /\ ui' = Submit([ui EXCEPT
                       !.file_path = selected_path,
                       !.delimiter = IF get_file_type(selected_path) = "json"
                                     THEN "N/A (JSON)" ELSE infer_delimiter(selected_path),
                       !.buttons = TRUE,
                       !.op = Op("clear", 0)],
                    "preview", selected_path)
    /\ UNCHANGED <<lastError, call, gen, prevRows, fmt, inf, js, job>>

clear_data ==
    /\ ui.screen = "select" /\ UserFree /\ ui.buttons
    /\ cache' = clear(cache)
    /\ ui' = [ui EXCEPT !.file_path = NoPath, !.delimiter = "", !.buttons = FALSE,
                        !.op = Op("clear", 0)]
    /\ UNCHANGED <<lastError, call, gen, prevRows, fmt, inf, js, job>>

\* the Next button
process_file ==
    /\ ui.screen = "select" /\ UserFree /\ ui.buttons /\ CanSubmit
    /\ ui.file_path # NoPath
    /\ ui' = Submit([ui EXCEPT !.op = NoOp], "load", ui.file_path)
    /\ UNCHANGED <<cache, lastError, call, gen, prevRows, fmt, inf, js, job>>

\* the Preview Data button while nothing is loaded (with data loaded it only
\* redraws the table)
on_apply_preview_percentage ==
    /\ ui.screen = "select" /\ UserFree /\ ui.buttons /\ CanSubmit
    /\ ~cache.is_loaded
    /\ ui.file_path # NoPath
    /\ ui' = Submit([ui EXCEPT !.op = NoOp], "preview", ui.file_path)
    /\ UNCHANGED <<cache, lastError, call, gen, prevRows, fmt, inf, js, job>>

\* the Back button of the column screen
build_file_selection_screen ==
    /\ ui.screen = "columns" /\ UserFree
    /\ cache' = clear(cache)
    /\ ui' = [ui EXCEPT !.screen = "select", !.file_path = NoPath, !.delimiter = "",
                        !.buttons = FALSE, !.op = Op("clear", 0)]
    /\ UNCHANGED <<lastError, call, gen, prevRows, fmt, inf, js, job>>

\* the Save button: generate_insert_statements_optimized with a table name
\* and an output path chosen
handle_generate_scripts ==
    /\ ui.screen = "columns" /\ UserFree /\ CanSubmit
    /\ ui' = Submit([ui EXCEPT !.op = NoOp], "generate", ui.file_path)
    /\ UNCHANGED <<cache, lastError, call, gen, prevRows, fmt, inf, js, job>>

\* ProgressWindow.cancel: the flag is set and the dialog destroyed; the task
\* is not told otherwise and runs on
cancel(t) ==
    /\ t \in Tasks
    /\ ui.tasks[t].window = "open"
    /\ ui' = [ui EXCEPT !.tasks[t].cancelled = TRUE, !.tasks[t].window = "destroyed",
                        !.op = NoOp]
    /\ UNCHANGED <<cache, lastError, call, gen, prevRows, fmt, inf, js, job>>

\* ProgressWindow.close from the Close button of a completed generation
close(t) ==
    /\ t \in Tasks
    /\ ui.tasks[t].window = "complete"
    /\ ui' = [ui EXCEPT !.tasks[t].window = "destroyed", !.op = NoOp]
    /\ UNCHANGED <<cache, lastError, call, gen, prevRows, fmt, inf, js, job>>

\* task t is running, or it is the oldest waiting task and a worker is idle:
\* the pool can run its next step
Runnable(t) ==
    \/ ui.tasks[t].pc \notin {"queued", "done"}
    \/ /\ ui.tasks[t].pc = "queued"
       /\ \A u \in 1..(t - 1) : ui.tasks[u].pc # "queued"
       /\ Cardinality({u \in Tasks : ui.tasks[u].pc \notin {"queued", "done"}}) < max_workers

\* the task function returns: its locals are gone
Ended(u, t) ==
    [u EXCEPT !.tasks[t].pc = "done", !.tasks[t].path = NoPath,
              !.tasks[t].delimiter_val = "", !.tasks[t].g = NoGen]

\* the except branch of a task: the error callback is scheduled and the task
\* ends
Fail(u, t, callback) ==
    [Ended(u, t) EXCEPT !.afterQ = Append(@, [t |-> t, kind |-> callback])]

\* the task ends by scheduling its completion callback
Finish(u, t, callback) ==
    [Ended(u, t) EXCEPT !.afterQ = Append(@, [t |-> t, kind |-> callback])]

\* self.delimiter.get() as the task turns it into load_file's argument
delimiter_val(delimiter) == IF delimiter = "N/A (JSON)" THEN "None" ELSE delimiter

\* one step of load_file_task (lines 907-936) or load_preview_task
\* (1621-1653); the first step is a worker taking the task up and running it
\* to the call of load_file.  update_text on a destroyed dialog raises
\* TclError.
LoadStep(t) ==
    /\ t \in Tasks
    /\ ui.tasks[t].kind \in {"load", "preview"}
    /\ Runnable(t)
    /\ LET task == ui.tasks[t]
           u == [ui EXCEPT !.op = NoOp]
       IN  \/ /\ task.pc = "queued"
              /\ ui' = IF task.window = "destroyed" THEN Fail(u, t, "load_error")
                       ELSE [u EXCEPT !.tasks[t].pc = "load_clear",
                                      !.tasks[t].delimiter_val = delimiter_val(ui.delimiter)]
              /\ UNCHANGED cache
           \/ /\ task.pc = "load_clear"
              /\ cache' = LoadBegin(cache, task.path)
              /\ ui' = [ui EXCEPT !.tasks[t].pc = "load_body",
                                  !.op = Op("load_file", t)]
           \/ /\ task.pc = "load_body"
              /\ \E estimated_rows \in Estimates(task.path) :
                    \E r \in {LoadBody(cache, task.path, task.delimiter_val,
                                       DefaultSamplePercentage,
                                       DefaultLargeFileThreshold, estimated_rows)} :
                        /\ cache' = r.cache
                        /\ ui' = IF r.err # "none" THEN Fail(u, t, "load_error")
                                 ELSE [u EXCEPT !.tasks[t].pc = "load_info"]
           \/ /\ task.pc = "load_info"
              /\ cache' = LoadEnd(cache, task.path, task.delimiter_val)
              /\ ui' = [u EXCEPT !.tasks[t].pc = "check"]
           \/ /\ task.pc = "check"
              /\ ui' = IF task.cancelled THEN Ended(u, t)
                       ELSE IF task.kind = "load" /\ cache.headers = None
                            THEN Fail([u EXCEPT !.headers = None], t, "load_error")
                       ELSE [u EXCEPT !.headers = cache.headers,
                                      !.tasks[t].pc = "finish"]
              /\ UNCHANGED cache
           \/ /\ task.pc = "finish"
              /\ ui' = IF task.window = "destroyed" THEN Fail(u, t, "load_error")
                       ELSE Finish(u, t, IF task.kind = "load" THEN "load_done"
                                         ELSE "preview_done")
              /\ UNCHANGED cache
    /\ UNCHANGED <<lastError, call, gen, prevRows, fmt, inf, js, job>>

\* one step of generate_task (lines 1318-1425)
GenerateStep(t) ==
    /\ t \in Tasks
    /\ ui.tasks[t].kind = "generate"
    /\ Runnable(t)
    /\ LET task == ui.tasks[t]
           u == [ui EXCEPT !.op = NoOp]
       IN  \/ /\ task.pc = "queued"
              /\ ui' = IF task.window = "destroyed" THEN Fail(u, t, "generate_error")
                       ELSE [u EXCEPT !.tasks[t].pc = "iter",
                                      !.tasks[t].g = get_chunk_generator(NoGen, DefaultChunkSize)]
           \/ /\ task.pc = "iter"
              /\ LET g == GenNext(cache, task.g)
                     v == [ui EXCEPT !.op = Op("next", t), !.tasks[t].g = g]
                 IN  ui' = IF g.st = "raised" THEN Fail(v, t, "generate_error")
                           ELSE IF g.st = "done" THEN [v EXCEPT !.tasks[t].pc = "assemble"]
                           ELSE IF task.cancelled THEN Ended(v, t)
                           ELSE v
           \/ /\ task.pc = "assemble"
              /\ ui' = IF task.cancelled THEN Ended(u, t)
                       ELSE [u EXCEPT !.tasks[t].pc = "save"]
           \/ /\ task.pc = "save"
              /\ ui' = IF task.window = "destroyed" THEN Fail(u, t, "generate_error")
                       ELSE Finish([u EXCEPT !.outFile = "written"], t, "generate_done")
    /\ UNCHANGED <<cache, lastError, call, gen, prevRows, fmt, inf, js, job>>

\* one step of infer_task (lines 1465-1508); infer_column_types takes
\* len(self.headers) and raises TypeError when there are none
InferStep(t) ==
    /\ t \in Tasks
    /\ ui.tasks[t].kind = "infer"
    /\ Runnable(t)
    /\ LET task == ui.tasks[t]
           u == [ui EXCEPT !.op = NoOp]
       IN  \/ /\ task.pc = "queued"
              /\ ui' = IF task.window = "destroyed" \/ ui.headers = None
                       THEN Fail(u, t, "infer_error")
                       ELSE [u EXCEPT !.tasks[t].pc = "check"]
           \/ /\ task.pc = "check"
              /\ ui' = IF task.cancelled THEN Ended(u, t)
                       ELSE [u EXCEPT !.tasks[t].pc = "finish"]
           \/ /\ task.pc = "finish"
              /\ ui' = IF task.window = "destroyed" THEN Fail(u, t, "infer_error")
                       ELSE Finish(u, t, "infer_done")
    /\ UNCHANGED <<cache, lastError, call, gen, prevRows, fmt, inf, js, job>>

\* the UI thread runs the oldest callback scheduled with master.after(0, ...).
\* Each callback first touches the task's dialog (progress.close() or
\* progress.update_text()); on a destroyed dialog that raises TclError and
\* the rest of the callback is not run.
RunAfter ==
    /\ ui.afterQ # <<>>
    /\ LET cb == Head(ui.afterQ)
           t == cb.t
           u == [ui EXCEPT !.afterQ = Tail(@), !.op = NoOp]
           closed == [u EXCEPT !.tasks[t].window = "destroyed"]
       IN  IF ui.tasks[t].window = "destroyed" THEN ui' = u
           ELSE IF cb.kind = "load_done" THEN
               \* build_column_type_screen, and set_inferred_types_async with
               \* infer_types_var on
               IF cache.is_loaded
               THEN CanSubmit
                    /\ ui' = Submit([closed EXCEPT !.screen = "columns"], "infer", ui.file_path)
               ELSE ui' = [closed EXCEPT !.screen = "columns"]
           ELSE IF cb.kind \in {"preview_done", "infer_done"} THEN ui' = closed
           ELSE IF cb.kind \in {"load_error", "infer_error"}
                THEN ui' = [closed EXCEPT !.errors = @ \cup {t}]
           ELSE IF cb.kind = "generate_done"
                THEN ui' = [u EXCEPT !.tasks[t].window = "complete"]
           ELSE ui' = [u EXCEPT !.tasks[t].window = "complete", !.errors = @ \cup {t}]
    /\ UNCHANGED <<cache, lastError, call, gen, prevRows, fmt, inf, js, job>>

NextUI ==
    \/ \E selected_path \in UIPaths : browse_file(selected_path)
    \/ clear_data
    \/ process_file
    \/ on_apply_preview_percentage
    \/ build_file_selection_screen
    \/ handle_generate_scripts
    \/ \E t \in 1..MaxTasks : cancel(t)
    \/ \E t \in 1..MaxTasks : close(t)
    \/ \E t \in 1..MaxTasks : LoadStep(t)
    \/ \E t \in 1..MaxTasks : GenerateStep(t)
    \/ \E t \in 1..MaxTasks : InferStep(t)
    \/ RunAfter

SpecUI == InitUI /\ [][NextUI]_vars

-----------------------------------------------------------------------------
(* Properties of the front end, checked under SpecUI                       *)

\* a worker is running task t
InFlight(t) == ui.tasks[t].pc \notin {"queued", "done"}

\* task t is inside load_file (past its clear(), before its return) or is
\* iterating a chunk generator
Busy(t) ==
    \/ ui.tasks[t].kind \in {"load", "preview"}
       /\ ui.tasks[t].pc \in {"load_body", "load_info"}
    \/ ui.tasks[t].kind = "generate" /\ ui.tasks[t].pc = "iter"

\* C7: at most one load/infer/generate task is in flight on the cache at a
\* time, and no step executes DataCache.clear() or enters load_file() while
\* another thread's load_file() or generator iteration is in progress.
C7_NoOverlap ==
    /\ Cardinality({t \in Tasks : InFlight(t)}) <= 1
    /\ ui.op.name \in {"clear", "load_file"} =>
          \A t \in Tasks : t # ui.op.by => ~Busy(t)

\* the header row and the data rows a load of the file at path reads
HeadersOn(path, delimiter) ==
    LET f == Disk(path)
    IN  IF get_file_type(path) = "json" THEN _process_json_data(f.root).headers
        ELSE Record(f, 1, delimiter)
RowsOn(path, delimiter) ==
    LET f == Disk(path)
    IN  IF get_file_type(path) = "json" THEN _process_json_data(f.root).rows
        ELSE DataRows(f, delimiter)

\* C25: in every state, whatever the interleaving of the tasks with the
\* handlers of the UI thread, is_loaded implies that headers, sample_rows
\* and file_info are present and are those of one file: the headers and the
\* leading rows of the file that file_info names.
C25_LoadedIsComplete ==
    cache.is_loaded =>
        /\ cache.headers # None /\ cache.sample_rows # None /\ cache.file_info # None
        /\ LET info == Val(cache.file_info)
               delimiter == delimiter_val(info.delimiter)
           IN  /\ cache.file_type = info.file_type
               /\ Val(cache.headers) = HeadersOn(info.file_path, delimiter)
               /\ Val(cache.sample_rows)
                     = Prefix(RowsOn(info.file_path, delimiter), Len(Val(cache.sample_rows)))

-----------------------------------------------------------------------------
(* SpecJson: _process_json_data and _flatten_object applied to parsed JSON *)
(* documents                                                               *)

MaxKeys == 2     \* keys of an object of the documents
MaxItems == 2    \* elements of a root array of the documents

JsonKeys == {"a", "b", "a.c"}

\* values of the scalar documents and of the keys of the object documents
Leafs == {JInt("1"), JStr("x"), JNull}
Inner ==
    { JObj(<<>>),
      JObj(<< <<"c", JInt("2")>> >>),
      JArr(<<>>),
      JArr(<<JInt("1"), JStr("x")>>),
      JArr(<< JObj(<< <<"c", JInt("1")>> >>), JObj(<< <<"d", JStr("y")>> >>) >>),
      JArr(<< JObj(<< <<"c", JInt("1")>> >>), JInt("5") >>) }

\* the objects of up to max keys of K, in any order, with values of V
ObjectsOf(K, V, max) ==
    UNION { { JObj([i \in 1..n |-> <<ks[i], vs[i]>>]) :
                ks \in {s \in [1..n -> K] : \A i, j \in 1..n : s[i] = s[j] => i = j},
                vs \in [1..n -> V] } : n \in 0..max }

\* elements of the root arrays
RowObjs == ObjectsOf({"a", "b"}, {JInt("1"), JNull, JObj(<< <<"c", JInt("2")>> >>)}, MaxKeys)
Items == RowObjs \cup {JInt("7"), JStr("z")}

JsonDocs ==
    ObjectsOf(JsonKeys, Leafs \cup Inner, MaxKeys)
      \cup UNION {{JArr(xs) : xs \in [1..n -> Items]} : n \in 0..MaxItems}
      \cup Leafs \cup {JBool("true")}

\* json_data as json.load returned it; nothing computed from it yet
InitJson ==
    /\ DataIdle
    /\ ui = Unused /\ fmt = Unused /\ inf = Unused /\ job = Unused
    /\ \E json_data \in JsonDocs : js = [json_data |-> json_data, flattened |-> None, processed_data |-> None]

\* self._flatten_object(json_data) on a document that is an object
FlattenObject ==
    /\ js.flattened = None
    /\ js.json_data.t = "obj"
    /\ js' = [js EXCEPT !.flattened = Some(_flatten_object(js.json_data, ""))]
    /\ UNCHANGED <<cache, lastError, call, gen, prevRows, ui, fmt, inf, job>>

\* self._process_json_data(json_data)
ProcessJsonData ==
    /\ js.processed_data = None
    /\ js' = [js EXCEPT !.processed_data = Some(_process_json_data(js.json_data))]
    /\ UNCHANGED <<cache, lastError, call, gen, prevRows, ui, fmt, inf, job>>

NextJson == FlattenObject \/ ProcessJsonData

SpecJson == InitJson /\ [][NextJson]_vars

-----------------------------------------------------------------------------
(* Properties of the JSON table, checked under SpecJson                    *)

Processed == js.processed_data # None
Flattened == js.flattened # None

AllObjects(json_data) ==
    json_data.t = "arr" /\ \A i \in 1..Len(json_data.items) : json_data.items[i].t = "obj"
NoObjects(json_data) ==
    json_data.t = "arr" /\ \A i \in 1..Len(json_data.items) : json_data.items[i].t # "obj"

RECURSIVE FirstSeen(_)
\* the distinct elements of a sequence in the order of their first occurrence
FirstSeen(seq) ==
    IF seq = <<>> THEN <<>>
    ELSE LET init == FirstSeen(SubSeq(seq, 1, Len(seq) - 1))
             last == seq[Len(seq)]
         IN  IF \E j \in 1..Len(init) : init[j] = last THEN init ELSE Append(init, last)

\* the flattened keys of element i of a root array, in order
KeysOfItem(i) == Keys(_flatten_object(js.json_data.items[i], ""))

\* C13: for a root array of objects the headers are the flattened keys of
\* all objects in first-seen order, there is one row per object, every row
\* has one cell per header, a key an object lacks is the empty string in its
\* row and a key it has is the string form of its value.
C13_UnionOfKeys ==
    (Processed /\ AllObjects(js.json_data)) =>
        LET items == js.json_data.items
            headers == Val(js.processed_data).headers
            rows == Val(js.processed_data).rows
        IN  /\ headers = FirstSeen(ConcatAll([i \in 1..Len(items) |-> KeysOfItem(i)]))
            /\ Len(rows) = Len(items)
            /\ \A i \in 1..Len(rows) :
                  /\ Len(rows[i]) = Len(headers)
                  /\ \A h \in 1..Len(headers) :
                        LET flattened == _flatten_object(items[i], "")
                        IN  IF \E e \in 1..Len(flattened) : flattened[e][1] = headers[h]
                            THEN \E e \in 1..Len(flattened) :
                                    /\ flattened[e][1] = headers[h]
                                    /\ rows[i][h] = PyStr(flattened[e][2])
                            ELSE rows[i][h] = ""

\* C13 witness: [{"a": 1}, {"b": 1, "a": null}] gives the headers a, b and
\* the rows ("1", "") and ("None", "1")
C13_Witness ==
    /\ Processed
    /\ js.json_data = JArr(<< JObj(<< <<"a", JInt("1")>> >>),
                              JObj(<< <<"b", JInt("1")>>, <<"a", JNull>> >>) >>)
    /\ Val(js.processed_data) =
          [headers |-> <<"a", "b">>, rows |-> << <<"1", "">>, <<"None", "1">> >>]

\* parent.child, or child at the top
ChildKey(parent_key, key) == IF parent_key = "" THEN key ELSE parent_key \o "." \o key

\* parent[i]
IndexKey(parent_key, i) == parent_key \o "[" \o ToString(i) \o "]"

RECURSIVE Unmixed(_)
\* every array in the value holds objects only or no object at all
Unmixed(value) ==
    CASE value.t = "obj" -> \A j \in 1..Len(value.kv) : Unmixed(value.kv[j][2])
      [] value.t = "arr" ->
            /\ AllObjects(value) \/ NoObjects(value)
            /\ \A i \in 1..Len(value.items) : Unmixed(value.items[i])
      [] OTHER -> TRUE

RECURSIVE LeafEntries(_, _)
\* the entries C14 describes for a value under a key: one per leaf, in
\* document order
LeafEntries(value, key) ==
    CASE value.t = "obj" ->
            ConcatAll([j \in 1..Len(value.kv) |->
                          LeafEntries(value.kv[j][2], ChildKey(key, value.kv[j][1]))])
      [] value.t = "arr" /\ value.items # <<>> /\ AllObjects(value) ->
            ConcatAll([i \in 1..Len(value.items) |->
                          LeafEntries(value.items[i], IndexKey(key, i - 1))])
      [] value.t = "arr" ->
            << <<key, JStr(JoinStr([i \in 1..Len(value.items) |->
                                       PyStr(value.items[i])], ", "))>> >>
      [] OTHER -> << <<key, value>> >>

RECURSIVE PathsUnder(_, _)
\* the keys an entry made of the value under this key can have
PathsUnder(value, key) ==
    {key} \cup
    (CASE value.t = "obj" ->
            UNION {PathsUnder(value.kv[j][2], ChildKey(key, value.kv[j][1])) :
                      j \in 1..Len(value.kv)}
       [] value.t = "arr" ->
            UNION {PathsUnder(value.items[i], IndexKey(key, i - 1)) :
                      i \in 1..Len(value.items)}
       [] OTHER -> {})

\* C14: _flatten_object returns one entry per leaf in document order, not
\* sorted: parent.child for the leaf of a nested object, parent[i].child
\* for the i-th object of an array of objects, one entry of the elements
\* joined by ", " for an array of non-objects; and every key of the object
\* has at least one entry.
C14_OneEntryPerLeaf ==
    (Flattened /\ Unmixed(js.json_data)) =>
        LET obj == js.json_data
            items == Val(js.flattened)
        IN  /\ items = LeafEntries(obj, "")
            /\ \A j \in 1..Len(obj.kv) :
                  \E e \in 1..Len(items) :
                      items[e][1] \in PathsUnder(obj.kv[j][2], obj.kv[j][1])

\* C15: an array of non-objects gives the header "value" and a row of the
\* string form of each element, an object gives one row under its flattened
\* keys, a scalar gives the header "value" and one row, and a root array
\* gives as many rows as it has elements.
C15_RootShapes ==
    Processed =>
        LET json_data == js.json_data
            headers == Val(js.processed_data).headers
            rows == Val(js.processed_data).rows
        IN  /\ (json_data.t = "arr" /\ json_data.items # <<>> /\ NoObjects(json_data)) =>
                  /\ headers = <<"value">>
                  /\ rows = [i \in 1..Len(json_data.items) |-> <<PyStr(json_data.items[i])>>]
            /\ json_data.t = "obj" =>
                  /\ headers = Keys(_flatten_object(json_data, ""))
                  /\ Len(rows) = 1 /\ Len(rows[1]) = Len(headers)
            /\ json_data.t = "prim" =>
                  /\ headers = <<"value">>
                  /\ rows = << <<PyStr(json_data)>> >>
            /\ json_data.t = "arr" => Len(rows) = Len(json_data.items)

-----------------------------------------------------------------------------
(* Properties of cancellation, checked under SpecUI                        *)

ErrorCallbacks == {"load_error", "generate_error", "infer_error"}

\* the error callbacks of task t waiting in the after queue
ErrorsQueued(u, t) ==
    {k \in 1..Len(u.afterQ) : u.afterQ[k].t = t /\ u.afterQ[k].kind \in ErrorCallbacks}

\* C17: once Cancel has been pressed on the dialog of a load or generate
\* task, the task does not enter its error handler (no step schedules an
\* error callback for it) and no error is shown for it.
C17_CancelIsNotAnError ==
    [][\A t \in Tasks :
          (ui.tasks[t].cancelled /\ ui.tasks[t].kind \in {"load", "preview", "generate"}) =>
              /\ Cardinality(ErrorsQueued(ui', t)) <= Cardinality(ErrorsQueued(ui, t))
              /\ t \in ui'.errors => t \in ui.errors]_vars

\* C18: a load whose Cancel has been pressed does not leave the cache
\* reporting is_loaded: the step in which the cancelled task finishes
\* load_file does not end with is_loaded true.
C18_CancelledLoadNotValid ==
    [][\A t \in Tasks :
          (/\ ui.tasks[t].kind \in {"load", "preview"}
           /\ ui.tasks[t].cancelled
           /\ ui.tasks[t].pc = "load_info"
           /\ ui'.tasks[t].pc = "check") => ~cache'.is_loaded]_vars

-----------------------------------------------------------------------------
(* SpecGen: one run of generate_task (src/sqlbuilder.py:1318-1425), the    *)
(* worker function of generate_insert_statements_optimized, on a loaded    *)
(* cache, with the Cancel button of its progress dialog.  The script is    *)
(* kept as its lines ("\n".join(script_lines) split at the line ends); a   *)
(* line is the sequence of its parts.                                      *)

insert_batch_size == 5000    \* src/config_manager.py default
ProgressEvery == 1000        \* rows between two progress updates

\* the text format_insert_values returns for a row of a chunk after the
\* padding of lines 1353-1355.  The text of each cell is FormattedValue's;
\* here the tuple is kept as the cells that zip(row, column_types) pairs.
TupleOf(row, types) ==
    LET padded == PadRow(row, types)
    IN  [cells |-> SubSeq(padded, 1, Min(Len(padded), Len(types)))]

\* lines 1325-1333: the USE and TRUNCATE statements
ScriptHead(db_name, truncate_before_insert) ==
    (IF db_name # "" THEN << <<"USE", db_name>>, <<"GO">>, <<>> >> ELSE <<>>)
        \o (IF truncate_before_insert
            THEN << <<"TRUNCATE TABLE">>, <<"GO">>, <<>> >> ELSE <<>>)

\* the two lines of insert_header (line 1335)
InsertHeader == << <<"INSERT INTO">>, <<"VALUES">> >>

\* the lines of ",\n".join(chunk) + ";\nGO" (lines 1382, 1385)
ValuesLines(chunk) ==
    IF chunk = <<>> THEN << <<";">>, <<"GO">> >>
    ELSE [j \in 1..(Len(chunk) + 1) |->
             IF j < Len(chunk) THEN <<chunk[j], ",">>
             ELSE IF j = Len(chunk) THEN <<chunk[j], ";">>
             ELSE <<"GO">>]

\* f.write(script) encodes the text: it raises UnicodeEncodeError when a
\* cell holds a code point the codec of the file does not encode
Encodable(script) ==
    \A i \in 1..Len(script) :
        (Len(script[i]) = 2 /\ script[i][2] \in {",", ";"}) =>
            \A j \in 1..Len(script[i][1].cells) : script[i][1].cells[j] # LoneSurrogate

\* the loaded files INSERT statements are generated from, the batch sizes
\* set in the configuration, and the columns added in the editor
GenPaths == {P("hdr", ".csv"), P("s3", ".csv"), P("objs", ".json"), P("sur", ".json")}
BatchSizes == {1, 2, insert_batch_size}

GenSetups ==
    [path : GenPaths, batch_insert_var : BOOLEAN, insert_batch_size : BatchSizes,
     db_name : {"", "db"}, truncate_before_insert : BOOLEAN, added : 0..1]
      \cup [path : {P("huge", ".csv")}, batch_insert_var : BOOLEAN,
            insert_batch_size : {insert_batch_size}, db_name : {""},
            truncate_before_insert : {FALSE}, added : {0}]

\* the state in which generate_insert_statements_optimized has made the
\* progress dialog and submitted generate_task: the file is loaded (process_file
\* with the default settings) and the column list is built.  outFile is None
\* while the task has not opened the file chosen in the save dialog.
InitGen ==
    /\ lastError = "none" /\ call = NoCall /\ gen = NoGen /\ prevRows = None
    /\ ui = Unused /\ fmt = Unused /\ inf = Unused /\ js = Unused
    /\ \E setup \in GenSetups :
          \E estimated_rows \in Estimates(setup.path) :
              LET delimiter == delimiter_val(IF get_file_type(setup.path) = "json"
                                             THEN "N/A (JSON)" ELSE infer_delimiter(setup.path))
                  r == load_file(NewCache, setup.path, delimiter, DefaultSamplePercentage,
                                 DefaultLargeFileThreshold, estimated_rows)
              IN  /\ r.err = "none"
                  /\ cache = r.cache
                  /\ job = [setup |-> setup,
                            column_types |-> [j \in 1..(Len(Val(r.cache.headers)) + setup.added)
                                                |-> T_NVARCHAR],
                            pc |-> "start", cancelled |-> FALSE, window |-> "open",
                            g |-> NoGen, chunk |-> <<>>, k |-> 0, chunk_count |-> 0,
                            all_values |-> <<>>, script_lines |-> <<>>, i |-> 0,
                            outFile |-> None, afterQ |-> <<>>]

\* the task function returns
JobReturn(j) == [j EXCEPT !.pc = "done"]

\* the except branch (lines 1419-1424): the error callback is scheduled
JobFail(j) == [j EXCEPT !.pc = "done", !.afterQ = Append(@, "generate_error")]

\* progress.update_text(...) and then pc; on a destroyed dialog label.config
\* raises TclError
UpdateText(j, pc) == IF j.window = "destroyed" THEN JobFail(j) ELSE [j EXCEPT !.pc = pc]

\* lines 1320-1337: the first update_text, the head of the script, the
\* second update_text, and the call of get_chunk_generator()
BeginScript ==
    /\ job.pc = "start"
    /\ job' = UpdateText([job EXCEPT
                  !.script_lines = ScriptHead(job.setup.db_name,
                                              job.setup.truncate_before_insert),
                  !.g = get_chunk_generator(NoGen, DefaultChunkSize)], "next")
    /\ UNCHANGED <<cache, lastError, call, gen, prevRows, ui, fmt, inf, js>>

\* line 1344: the for statement takes the next chunk from the generator
FetchChunk ==
    /\ job.pc = "next"
    /\ LET g == GenNext(cache, job.g)
           j == [job EXCEPT !.g = g]
       IN  job' = IF g.st = "raised" THEN JobFail(j)
                  ELSE IF g.st = "done" THEN [j EXCEPT !.pc = "after_loop", !.chunk = <<>>]
                  ELSE [j EXCEPT !.pc = "check", !.chunk = g.out[Len(g.out)], !.k = 0]
    /\ UNCHANGED <<cache, lastError, call, gen, prevRows, ui, fmt, inf, js>>

\* variant of ChunkCheckpoint without the test of lines 1345-1346
ChunkCheckpoint_NoTest ==
    /\ job.pc = "check"
    /\ job' = [job EXCEPT !.pc = "announce", !.chunk_count = @ + 1]
    /\ UNCHANGED <<cache, lastError, call, gen, prevRows, ui, fmt, inf, js>>

\* lines 1345-1348: the cancellation test at the head of the loop body
ChunkCheckpoint ==
    /\ job.pc = "check"
    /\ job' = IF job.cancelled THEN JobReturn(job)
              ELSE [job EXCEPT !.pc = "announce", !.chunk_count = @ + 1]
    /\ UNCHANGED <<cache, lastError, call, gen, prevRows, ui, fmt, inf, js>>

\* line 1349: update_text("Processing data chunk ...")
AnnounceChunk ==
    /\ job.pc = "announce"
    /\ job' = UpdateText(job, IF job.chunk = <<>> THEN "next" ELSE "format")
    /\ UNCHANGED <<cache, lastError, call, gen, prevRows, ui, fmt, inf, js>>

\* lines 1351-1360: the rows of the chunk are padded and formatted up to the
\* end of the chunk or to the next multiple of 1000 rows, where update_text
\* is called
FormatRowsOfChunk ==
    /\ job.pc = "format"
    /\ LET total == Len(job.all_values)
           upto == Min(Len(job.chunk),
                       job.k + (ProgressEvery - (total % ProgressEvery)))
           values == [n \in 1..(upto - job.k) |->
                         TupleOf(job.chunk[job.k + n], job.column_types)]
           j == [job EXCEPT !.all_values = @ \o values, !.k = upto]
           pc == IF upto = Len(job.chunk) THEN "next" ELSE "format"
       IN  job' = IF Len(j.all_values) % ProgressEvery = 0
                  THEN UpdateText(j, pc) ELSE [j EXCEPT !.pc = pc]
    /\ UNCHANGED <<cache, lastError, call, gen, prevRows, ui, fmt, inf, js>>

\* lines 1362-1363: the cancellation test after the loop
LoopCheckpoint ==
    /\ job.pc = "after_loop"
    /\ job' = IF job.cancelled THEN JobReturn(job) ELSE [job EXCEPT !.pc = "assemble"]
    /\ UNCHANGED <<cache, lastError, call, gen, prevRows, ui, fmt, inf, js>>

\* lines 1366-1373 and 1383-1385: update_text("Generating SQL script ..."),
\* then the batch loop starts or the single statement is appended
BeginAssembly ==
    /\ job.pc = "assemble"
    /\ job' = IF job.setup.batch_insert_var
              THEN UpdateText([job EXCEPT !.i = 0], "batch_check")
              ELSE UpdateText([job EXCEPT !.script_lines =
                                  @ \o InsertHeader \o ValuesLines(job.all_values)],
                              "save")
    /\ UNCHANGED <<cache, lastError, call, gen, prevRows, ui, fmt, inf, js>>

\* lines 1373-1375: the next i of range(0, len(all_values), batch size) and
\* the cancellation test of the batch loop
BatchCheckpoint ==
    /\ job.pc = "batch_check"
    /\ job' = IF job.i >= Len(job.all_values) THEN [job EXCEPT !.pc = "save"]
              ELSE IF job.cancelled THEN JobReturn(job)
              ELSE [job EXCEPT !.pc = "batch"]
    /\ UNCHANGED <<cache, lastError, call, gen, prevRows, ui, fmt, inf, js>>

\* variant of AppendBatch whose slice is one tuple short of the batch size
AppendBatch_Short ==
    /\ job.pc = "batch"
    /\ LET chunk == SubSeq(job.all_values, job.i + 1,
                           Min(job.i + job.setup.insert_batch_size - 1, Len(job.all_values)))
           j == [job EXCEPT !.script_lines = @ \o InsertHeader \o ValuesLines(chunk),
                            !.i = @ + job.setup.insert_batch_size]
       IN  job' = IF job.window = "destroyed" THEN JobFail(job)
                  ELSE [j EXCEPT !.pc = "batch_check"]
    /\ UNCHANGED <<cache, lastError, call, gen, prevRows, ui, fmt, inf, js>>

\* lines 1377-1382: update_text("Creating batch ..."), the slice
\* all_values[i:i + batch size] and its statement
AppendBatch ==
    /\ job.pc = "batch"
    /\ LET chunk == SubSeq(job.all_values, job.i + 1,
                           Min(job.i + job.setup.insert_batch_size, Len(job.all_values)))
           j == [job EXCEPT !.script_lines = @ \o InsertHeader \o ValuesLines(chunk),
                            !.i = @ + job.setup.insert_batch_size]
       IN  job' = IF job.window = "destroyed" THEN JobFail(job)
                  ELSE [j EXCEPT !.pc = "batch_check"]
    /\ UNCHANGED <<cache, lastError, call, gen, prevRows, ui, fmt, inf, js>>

\* line 1389: update_text("Saving file to disk...")
SaveText ==
    /\ job.pc = "save"
    /\ job' = UpdateText(job, "write")
    /\ UNCHANGED <<cache, lastError, call, gen, prevRows, ui, fmt, inf, js>>

\* lines 1391-1417: open(file_path, 'w') creates or truncates the file,
\* f.write(script) encodes and writes the text, and the completion callback
\* is scheduled
WriteFile ==
    /\ job.pc = "write"
    /\ job' = IF ~Encodable(job.script_lines)
              THEN JobFail([job EXCEPT !.outFile = Some(<<>>)])
              ELSE [job EXCEPT !.outFile = Some(job.script_lines), !.pc = "done",
                               !.afterQ = Append(@, "generate_done")]
    /\ UNCHANGED <<cache, lastError, call, gen, prevRows, ui, fmt, inf, js>>

\* the Cancel button of the progress dialog (ProgressWindow.cancel)
CancelJob ==
    /\ job.window = "open"
    /\ job' = [job EXCEPT !.cancelled = TRUE, !.window = "destroyed"]
    /\ UNCHANGED <<cache, lastError, call, gen, prevRows, ui, fmt, inf, js>>

\* the UI thread runs the callback the task scheduled: update_text and
\* show_completion, which turn Cancel into Close; on a destroyed dialog the
\* update_text raises and nothing is shown
ShowCompletion ==
    /\ job.afterQ # <<>>
    /\ job' = [job EXCEPT !.afterQ = Tail(@),
                          !.window = IF @ = "destroyed" THEN @ ELSE "complete"]
    /\ UNCHANGED <<cache, lastError, call, gen, prevRows, ui, fmt, inf, js>>

NextGen ==
    \/ BeginScript
    \/ FetchChunk
    \/ ChunkCheckpoint
    \/ AnnounceChunk
    \/ FormatRowsOfChunk
    \/ LoopCheckpoint
    \/ BeginAssembly
    \/ BatchCheckpoint
    \/ AppendBatch
    \/ SaveText
    \/ WriteFile
    \/ CancelJob
    \/ ShowCompletion

SpecGen == InitGen /\ [][NextGen]_vars

-----------------------------------------------------------------------------
(* Properties of INSERT generation, checked under SpecGen                  *)

\* the data rows of the file the statements are generated from
JobRows ==
    LET f == Disk(job.setup.path)
    IN  IF f.kind = "json" THEN _process_json_data(f.root).rows ELSE DataRows(f, f.sep)

\* the script is assembled: the task is about to save it or has written it
Assembled ==
    \/ job.pc \in {"save", "write"}
    \/ job.pc = "done" /\ job.outFile = Some(job.script_lines)

\* reading a script: the lines that open an INSERT statement, the lines
\* that hold a tuple, the line that ends the statement opened at line i
\* (the first line after it whose last part is ';'), and its tuples
IsTupleLine(line) == Len(line) = 2 /\ line[2] \in {",", ";"}
EndsStatement(line) == Len(line) > 0 /\ line[Len(line)] = ";"
InsertLines(script) == {i \in 1..Len(script) : script[i] = <<"INSERT INTO">>}
StatementEnd(script, i) ==
    CHOOSE e \in (i + 1)..(Len(script) + 1) :
        /\ e <= Len(script) => EndsStatement(script[e])
        /\ \A m \in (i + 1)..(e - 1) : ~EndsStatement(script[m])
TuplesIn(script, from, to) ==
    LET lines == SelectSeq(SubSeq(script, from, to), IsTupleLine)
    IN  [n \in 1..Len(lines) |-> lines[n][1]]

\* C22: with batch insert on and batch size B >= 1, the script assembled
\* from R formatted rows holds ceil(R / B) INSERT statements, each of at
\* most B tuples and followed by a GO line, and the tuples of the script in
\* order are the formatted rows of the file in source order.
C22_BatchStatements ==
    (Assembled /\ job.setup.batch_insert_var) =>
        LET script == job.script_lines
            B == job.setup.insert_batch_size
            R == Len(JobRows)
        IN  /\ Cardinality(InsertLines(script)) = Ceil(R, B)
            /\ \A i \in InsertLines(script) :
                  LET e == StatementEnd(script, i)
                  IN  /\ e < Len(script) /\ script[e + 1] = <<"GO">>
                      /\ script[i + 1] = <<"VALUES">>
                      /\ Len(TuplesIn(script, i, e)) <= B
                      /\ Len(TuplesIn(script, i, e)) = e - i - 1
            /\ TuplesIn(script, 1, Len(script))
                  = [n \in 1..R |-> TupleOf(JobRows[n], job.column_types)]

\* C22 witness: the statements of three rows were written in batches of two
C22_Witness ==
    /\ job.pc = "done" /\ job.outFile = Some(job.script_lines)
    /\ job.setup.batch_insert_var
    /\ Len(job.all_values) = 3 /\ job.setup.insert_batch_size = 2
    /\ Cardinality(InsertLines(job.script_lines)) = 2

\* the part of generate_task that processes the chunks
InChunkLoop == job.pc \in {"next", "check", "announce", "format", "after_loop"}

C27_FileNeverPartial ==
    job.outFile # None =>
        /\ Val(job.outFile) = job.script_lines
        /\ TuplesIn(Val(job.outFile), 1, Len(Val(job.outFile)))
              = [n \in 1..Len(JobRows) |-> TupleOf(JobRows[n], job.column_types)]

\* C29: every INSERT statement of the assembled script holds at least one
\* tuple, with batch insert on and off, and a file without data rows gets
\* no INSERT statement.
C29_NoEmptyInsert ==
    Assembled =>
        /\ \A i \in InsertLines(job.script_lines) :
              Len(TuplesIn(job.script_lines, i, StatementEnd(job.script_lines, i))) >= 1
        /\ Len(JobRows) = 0 => InsertLines(job.script_lines) = {}

-----------------------------------------------------------------------------
(* SpecKeys: the primary-key and null checkboxes of the column-definition  *)
(* screen (src/sqlbuilder.py:1035-1072, 1176-1211, 1905-1985) and the      *)
(* CREATE TABLE script of generate_sql_file (1246-1290).  fmt holds the    *)
(* rows of the screen: for each row the two BooleanVars and the state of   *)
(* the two Checkbuttons.                                                   *)

MaxKeyHeaders == 3

Normal == "normal"
Disabled == "disabled"

\* build_column_type_screen, lines 1042-1072: one row per header, pk_var
\* False, null_var True, both Checkbuttons in their default state
KeyScreen(n, table_name) ==
    [headers |-> n,
     table_name |-> table_name,
     column_entries |-> [i \in 1..n |-> <<"h", i>>],
     pk_vars |-> [i \in 1..n |-> FALSE],
     null_vars |-> [i \in 1..n |-> TRUE],
     pk_checkboxes |-> [i \in 1..n |-> Normal],
     null_checkboxes |-> [i \in 1..n |-> Normal],
     additional_column_count |-> 0,
     create_lines |-> None]

InitKeys ==
    /\ DataIdle
    /\ ui = Unused /\ inf = Unused /\ js = Unused /\ job = Unused
    /\ \E n \in 1..MaxKeyHeaders, table_name \in {"", "t"} :
          fmt = KeyScreen(n, table_name)

\* update_pk_states without line 1192, where the selected row's null_var is
\* cleared (mutant)
update_pk_states_KeepNull(f, selected_index) ==
    LET n == Len(f.pk_vars)
        selected == f.pk_vars[selected_index]
    IN  [f EXCEPT
           !.pk_vars = [i \in 1..n |->
               IF selected /\ i # selected_index THEN FALSE ELSE f.pk_vars[i]],
           !.pk_checkboxes = [i \in 1..n |->
               IF selected /\ i # selected_index THEN Disabled ELSE Normal],
           !.null_checkboxes = [i \in 1..n |->
               IF selected
               THEN IF i = selected_index THEN Disabled ELSE f.null_checkboxes[i]
               ELSE Normal]]

\* update_pk_states(selected_index), lines 1176-1198.  The loop tests
\* pk_vars[selected_index] in every pass and writes only the pk_var of the
\* other rows, so the test has one value for the whole loop.
update_pk_states(f, selected_index) ==
    LET n == Len(f.pk_vars)
        selected == f.pk_vars[selected_index]
    IN  [f EXCEPT
           !.pk_vars = [i \in 1..n |->
               IF selected /\ i # selected_index THEN FALSE ELSE f.pk_vars[i]],
           !.pk_checkboxes = [i \in 1..n |->
               IF selected /\ i # selected_index THEN Disabled ELSE Normal],
           !.null_vars = [i \in 1..n |->
               IF selected /\ i = selected_index THEN FALSE ELSE f.null_vars[i]],
           !.null_checkboxes = [i \in 1..n |->
               IF selected
               THEN IF i = selected_index THEN Disabled ELSE f.null_checkboxes[i]
               ELSE Normal]]

\* update_null_states(selected_index), lines 1200-1211: every row is
\* treated by its own null_var, the argument is not used
update_null_states(f, selected_index) ==
    LET n == Len(f.null_vars)
    IN  [f EXCEPT
           !.pk_vars = [i \in 1..n |->
               IF f.null_vars[i] THEN FALSE ELSE f.pk_vars[i]],
           !.pk_checkboxes = [i \in 1..n |->
               IF f.null_vars[i] THEN Disabled ELSE Normal]]

\* a click on the primary-key Checkbutton of row i: a Checkbutton that is
\* not disabled toggles its variable and then calls its command (line 1049,
\* 1918)
ClickPk(i) ==
    /\ i \in 1..Len(fmt.pk_vars)
    /\ fmt.pk_checkboxes[i] = Normal
    /\ fmt' = update_pk_states([fmt EXCEPT !.pk_vars[i] = ~@], i)
    /\ UNCHANGED <<cache, lastError, call, gen, prevRows, ui, inf, js, job>>

\* a click on the null Checkbutton of row i (line 1064, 1931)
ClickNull(i) ==
    /\ i \in 1..Len(fmt.null_vars)
    /\ fmt.null_checkboxes[i] = Normal
    /\ fmt' = update_null_states([fmt EXCEPT !.null_vars[i] = ~@], i)
    /\ UNCHANGED <<cache, lastError, call, gen, prevRows, ui, inf, js, job>>

\* add_new_column_row, lines 1905-1947, on the checkbox lists: the new row
\* has pk_var False, null_var True, an empty name and fresh Checkbuttons
add_new_column_row_keys ==
    /\ fmt.additional_column_count < max_additional_columns
    /\ fmt' = [fmt EXCEPT !.column_entries = Append(@, <<>>),
                          !.pk_vars = Append(@, FALSE),
                          !.null_vars = Append(@, TRUE),
                          !.pk_checkboxes = Append(@, Normal),
                          !.null_checkboxes = Append(@, Normal),
                          !.additional_column_count = @ + 1]
    /\ UNCHANGED <<cache, lastError, call, gen, prevRows, ui, inf, js, job>>

\* remove_last_column, lines 1949-1985, on the checkbox lists
remove_last_column_keys ==
    /\ fmt.additional_column_count > 0
    /\ Len(fmt.column_entries) - 1 >= fmt.headers
    /\ fmt' = [fmt EXCEPT !.column_entries = SubSeq(@, 1, Len(@) - 1),
                          !.pk_vars = SubSeq(@, 1, Len(@) - 1),
                          !.null_vars = SubSeq(@, 1, Len(@) - 1),
                          !.pk_checkboxes = SubSeq(@, 1, Len(@) - 1),
                          !.null_checkboxes = SubSeq(@, 1, Len(@) - 1),
                          !.additional_column_count = @ - 1]
    /\ UNCHANGED <<cache, lastError, call, gen, prevRows, ui, inf, js, job>>

\* the rows whose pk_var is set, in screen order (lines 1273-1274)
RECURSIVE PkRows(_, _)
PkRows(pk_vars, i) ==
    IF i > Len(pk_vars) THEN <<>>
    ELSE (IF pk_vars[i] THEN <<i>> ELSE <<>>) \o PkRows(pk_vars, i + 1)

\* generate_sql_file, lines 1246-1281: nothing without a table name;
\* otherwise one definition line per row with NULL or NOT NULL, a comma
\* unless it is the last line and no key is set, and a PRIMARY KEY line
\* over pk_columns when there is one
generate_sql_file ==
    /\ fmt.table_name # ""
    /\ LET n == Len(fmt.column_entries)
           any_pk == \E j \in 1..n : fmt.pk_vars[j]
           pk_rows == PkRows(fmt.pk_vars, 1)
       IN  fmt' = [fmt EXCEPT !.create_lines = Some(
                      [column_defs |-> [i \in 1..n |->
                           [col_name |-> fmt.column_entries[i],
                            null_str |-> IF fmt.null_vars[i] THEN "NULL"
                                                             ELSE "NOT NULL",
                            comma |-> (i - 1 < n - 1) \/ any_pk,
                            in_pk |-> fmt.pk_vars[i]]],
                       pk_columns |-> [k \in 1..Len(pk_rows) |->
                                          fmt.column_entries[pk_rows[k]]]])]
    /\ UNCHANGED <<cache, lastError, call, gen, prevRows, ui, inf, js, job>>

NextKeys ==
    \/ \E i \in 1..(MaxKeyHeaders + max_additional_columns) : ClickPk(i)
    \/ \E i \in 1..(MaxKeyHeaders + max_additional_columns) : ClickNull(i)
    \/ add_new_column_row_keys
    \/ remove_last_column_keys
    \/ generate_sql_file

SpecKeys == InitKeys /\ [][NextKeys]_vars

\* C30: on the column-definition screen no row has its primary-key flag and
\* its nullable flag set together, whatever primary-key clicks, null clicks,
\* added and removed columns came before, and the script of
\* generate_sql_file lists in its PRIMARY KEY constraint exactly the rows
\* with the flag, every one of them declared NOT NULL.
C30_KeyNotNullable ==
    /\ \A i \in 1..Len(fmt.pk_vars) : ~(fmt.pk_vars[i] /\ fmt.null_vars[i])
    /\ fmt.create_lines # None =>
          LET c == Val(fmt.create_lines)
          IN  /\ \A i \in 1..Len(c.column_defs) :
                    c.column_defs[i].in_pk => c.column_defs[i].null_str = "NOT NULL"
              /\ Len(c.pk_columns)
                    = Cardinality({i \in 1..Len(c.column_defs) : c.column_defs[i].in_pk})
              /\ \A k \in 1..Len(c.pk_columns) :
                    \E i \in 1..Len(c.column_defs) :
                       /\ c.column_defs[i].in_pk
                       /\ c.column_defs[i].col_name = c.pk_columns[k]

\* C30 witness: the key has moved from a column of the file, left NOT NULL
\* with its key box disabled, to an added column, and the script was
\* written with that key
C30_Witness ==
    /\ fmt.additional_column_count > 0
    /\ fmt.pk_vars[Len(fmt.pk_vars)]
    /\ \E i \in 1..fmt.headers :
          ~fmt.null_vars[i] /\ fmt.pk_checkboxes[i] = Disabled
    /\ fmt.create_lines # None
    /\ Len(Val(fmt.create_lines).pk_columns) = 1
    /\ Val(fmt.create_lines).column_defs[Len(fmt.pk_vars)].in_pk

====
